---- MODULE Spec2Model ----
(***************************************************************************)
(* Routing table management of the EARS event-routing gateway.            *)
(*                                                                         *)
(*  - InMemoryRoutingTableManager (src/cmd/main.go): a map from route hash *)
(*    to routing table entry, with AddRoute / RemoveRoute /                *)
(*    ReplaceAllRoutes and the read GetAllRoutes.                          *)
(*  - DefaultRoutingTableManager (src/unnamed/part_001): AddRoute persists *)
(*    the route through the RouteStorer and does nothing else.             *)
(*  - The plugin registry and the route storer are collaborators whose     *)
(*    code is not part of the sources; they are modelled from the          *)
(*    specification (sections 4.2 and 6.1).                                *)
(***************************************************************************)
EXTENDS Integers, Sequences, FiniteSets, TLC

(***************************************************************************)
(* Bounds of the model.                                                    *)
(***************************************************************************)
\* longest slice handed to ReplaceAllRoutes
MaxReplaceLen == 2
\* number of nodes an acknowledgement tree may grow to
MaxAckNodes == 3
\* length of the arrays given to the split filter
MaxArrayLen == 2
\* number of messages one ReceiveMessage call returns at most
MaxBatch == 2
\* number of errors wrapped into one another in an error given to the HTTP surface
MaxErrorChain == 2
\* the last second of the clock
MaxClock == 35
\* number of fingerprints the window of a dedup filter holds
MaxWindow == 2

(***************************************************************************)
(* Routing table entries.                                                  *)
(***************************************************************************)
Names == {"a", "b"}

\* the nil *RoutingTableEntry
Nil == [nil |-> TRUE]

RoutingTableEntry ==
    [tenant : {"", "comcast/xfi"}, id : {"r1", "r2"},
     src : {"", "debug", "bogus"}, dst : {"", "debug"}, name : Names]

\* entry.Validate(): tenant, receiver and sender are mandatory
Validate(entry) ==
    IF entry.tenant = "" THEN "missing tenant"
    ELSE IF entry.src = "" THEN "missing receiver"
    ELSE IF entry.dst = "" THEN "missing sender"
    ELSE "ok"

\* entry.Hash(): hash of the route configuration; the name is not part of it
Hash(entry) == <<entry.tenant, entry.id, entry.src, entry.dst>>

\* route identity (tenantId, routeId)
RouteKey(entry) == <<entry.tenant, entry.id>>

ValidEntries == {e \in RoutingTableEntry : Validate(e) = "ok"}

\* plugins registered with the plugin manager at start-up
KnownPlugins == {"debug", "match"}

EmptyMap == [h \in {} |-> Nil]

(***************************************************************************)
(* Arguments the callers pass.                                             *)
(***************************************************************************)

\* arguments of AddRoute and RemoveRoute: every valid entry, some invalid ones, nil
Entries ==
    ValidEntries
    \cup {e \in RoutingTableEntry : Validate(e) # "ok" /\ e.id = "r1" /\ e.name = "a"}
    \cup {Nil}

\* elements of the slices handed to ReplaceAllRoutes
ReplacePool ==
    {e \in RoutingTableEntry :
        /\ e.tenant = "comcast/xfi" /\ e.id = "r1" /\ e.name = "a"
        /\ e.src # "" /\ (e.dst = "" => e.src = "debug")}

SeqsUpTo(S, n) == UNION {[1..k -> S] : k \in 0..n}

(***************************************************************************)
(* Go map operations.                                                      *)
(***************************************************************************)
MapSet(m, k, v) == (k :> v) @@ m
MapDelete(m, k) == [h \in (DOMAIN m) \ {k} |-> m[h]]

(***************************************************************************)
(* InMemoryRoutingTableManager.                                            *)
(***************************************************************************)
\* AddRoute that drops an entry which is already in the index
AddRoute_Toggle(index, entry) ==
    IF entry = Nil THEN [err |-> "missing routing table entry", index |-> index]
    ELSE IF Validate(entry) # "ok" THEN [err |-> Validate(entry), index |-> index]
    ELSE IF Hash(entry) \in DOMAIN index
         THEN [err |-> "ok", index |-> MapDelete(index, Hash(entry))]
         ELSE [err |-> "ok", index |-> MapSet(index, Hash(entry), entry)]

\* AddRoute that stores the entry before it validates it
AddRoute_StoreFirst(index, entry) ==
    IF entry = Nil THEN [err |-> "missing routing table entry", index |-> index]
    ELSE IF Validate(entry) # "ok"
         THEN [err |-> Validate(entry), index |-> MapSet(index, Hash(entry), entry)]
         ELSE [err |-> "ok", index |-> MapSet(index, Hash(entry), entry)]

AddRoute(index, entry) ==
    IF entry = Nil THEN [err |-> "missing routing table entry", index |-> index]
    ELSE IF Validate(entry) # "ok" THEN [err |-> Validate(entry), index |-> index]
    ELSE [err |-> "ok", index |-> MapSet(index, Hash(entry), entry)]

\* RemoveRoute that reports a route it does not find
RemoveRoute_NotFound(index, entry) ==
    IF entry = Nil THEN [err |-> "missing routing table entry", index |-> index]
    ELSE IF Validate(entry) # "ok" THEN [err |-> Validate(entry), index |-> index]
    ELSE IF Hash(entry) \notin DOMAIN index
         THEN [err |-> "route not found", index |-> index]
         ELSE [err |-> "ok", index |-> MapDelete(index, Hash(entry))]

\* RemoveRoute that replaces the index by an empty map
RemoveRoute_ClearsAll(index, entry) ==
    IF entry = Nil THEN [err |-> "missing routing table entry", index |-> index]
    ELSE IF Validate(entry) # "ok" THEN [err |-> Validate(entry), index |-> index]
    ELSE [err |-> "ok", index |-> EmptyMap]

RemoveRoute(index, entry) ==
    IF entry = Nil THEN [err |-> "missing routing table entry", index |-> index]
    ELSE IF Validate(entry) # "ok" THEN [err |-> Validate(entry), index |-> index]
    ELSE [err |-> "ok", index |-> MapDelete(index, Hash(entry))]

\* the loop of ReplaceAllRoutes over entries[i..]
RECURSIVE ReplaceLoop(_, _, _)
ReplaceLoop(index, entries, i) ==
    IF i > Len(entries) THEN [err |-> "ok", index |-> index]
    ELSE IF Validate(entries[i]) # "ok"
         THEN [err |-> Validate(entries[i]), index |-> index]
         ELSE ReplaceLoop(MapDelete(index, Hash(entries[i])), entries, i + 1)

\* the index is replaced by a fresh map before the loop runs
ReplaceAllRoutes(index, entries) == ReplaceLoop(EmptyMap, entries, 1)

\* plugin hash: the plugin and its configuration, not the name
PluginHash(cfg) == cfg.plugin

\* GetRouteCount counts the entries of the index
GetRouteCount(index) == Cardinality(DOMAIN index)

\* the orders in which a range loop may visit the keys of a map
MapOrders(m) ==
    {o \in [1..Cardinality(DOMAIN m) -> DOMAIN m] :
        \A i, j \in DOMAIN o : o[i] = o[j] => i = j}

\* GetAllRoutes: a slice of len(index) nil entries; idx stays 0, so that every
\* entry the loop visits is written to the first element
GetAllRoutes(index, order) ==
    [i \in 1..Len(order) |-> IF i = 1 THEN index[order[Len(order)]] ELSE Nil]

\* GetRoutesBySourcePlugin: a slice of len(index) nil entries, to which the
\* entries of the plugin are appended as the loop visits them
GetRoutesBySourcePlugin(index, plugin, order) ==
    LET hs == SelectSeq(order, LAMBDA h :
                  PluginHash([plugin |-> index[h].src, name |-> index[h].name])
                      = PluginHash(plugin))
    IN  [i \in 1..Len(order) |-> Nil] \o [i \in 1..Len(hs) |-> index[hs[i]]]

GetRoutesByDestinationPlugin(index, plugin, order) ==
    LET hs == SelectSeq(order, LAMBDA h :
                  PluginHash([plugin |-> index[h].dst, name |-> index[h].name])
                      = PluginHash(plugin))
    IN  [i \in 1..Len(hs) + Len(order) |->
            IF i <= Len(order) THEN Nil ELSE index[hs[i - Len(order)]]]

GetRoutesForEvent(index, event, order) ==
    GetRoutesBySourcePlugin(index, event.source, order)

(***************************************************************************)
(* RouteStorer and DefaultRoutingTableManager.                             *)
(***************************************************************************)
\* RouteStorer.SetRoute: fails on a storage error, else upserts by (tenant, id)
SetRoute(store, route, fails) ==
    IF fails THEN [err |-> "storer error", store |-> store]
    ELSE [err |-> "ok", store |-> MapSet(store, RouteKey(route), route)]

DefaultAddRoute(store, route, fails) ==
    LET r == SetRoute(store, route, fails)
    IN  IF r.err # "ok" THEN [err |-> r.err, store |-> r.store]
        ELSE [err |-> "ok", store |-> r.store]

(***************************************************************************)
(* Plugin registry: instances shared by plugin hash and reference-counted. *)
(***************************************************************************)
\* the route pipelines that register and unregister plugins
PipelineIds == {"p1", "p2"}
Kinds == {"receiver", "filter", "sender"}

PluginKey(kind, cfg) == <<kind, PluginHash(cfg)>>
PluginKeys == Kinds \X KnownPlugins

\* the factory fails for a plugin the manager does not know
NewPlugin(cfg) == IF cfg.plugin \in KnownPlugins THEN "ok" ELSE "invalid config"

\* Unregister that tears the instance down while other routes still hold it
Unregister_StopEarly(reg, handle) ==
    IF handle \notin reg.handles THEN [err |-> "unknown handle", reg |-> reg]
    ELSE LET n == reg.refcount[handle.key] - 1
         IN  [err |-> "ok",
              reg |-> [refcount |-> [reg.refcount EXCEPT ![handle.key] = n],
                       running |-> reg.running \ {handle.key},
                       handles |-> reg.handles \ {handle}]]

\* Unregister(handle): decrement; at zero stop the plugin and evict it
Unregister(reg, handle) ==
    IF handle \notin reg.handles THEN [err |-> "unknown handle", reg |-> reg]
    ELSE LET n == reg.refcount[handle.key] - 1
         IN  [err |-> "ok",
              reg |-> [refcount |-> [reg.refcount EXCEPT ![handle.key] = n],
                       running |-> IF n = 0 THEN reg.running \ {handle.key}
                                   ELSE reg.running,
                       handles |-> reg.handles \ {handle}]]

\* Register that starts a second instance count for a route that holds one
Register_CountTwice(reg, route, kind, cfg) ==
    LET key == PluginKey(kind, cfg)
        handle == [route |-> route, key |-> key]
    IN  IF NewPlugin(cfg) # "ok" THEN [err |-> NewPlugin(cfg), reg |-> reg]
        ELSE [err |-> "ok",
              reg |-> [refcount |-> [reg.refcount EXCEPT ![key] = @ + 1],
                       running |-> reg.running \cup {key},
                       handles |-> reg.handles \cup {handle}]]

\* RegisterReceiver / RegisterSender / RegisterFilter for one route
Register(reg, route, kind, cfg) ==
    LET key == PluginKey(kind, cfg)
        handle == [route |-> route, key |-> key]
    IN  IF NewPlugin(cfg) # "ok" THEN [err |-> NewPlugin(cfg), reg |-> reg]
        ELSE IF handle \in reg.handles THEN [err |-> "ok", reg |-> reg]
        ELSE [err |-> "ok",
              reg |-> [refcount |-> [reg.refcount EXCEPT ![key] = @ + 1],
                       running |-> reg.running \cup {key},
                       handles |-> reg.handles \cup {handle}]]

(***************************************************************************)
(* Acknowledgement tree of an event.  The root is the receiver's emission; *)
(* Clone adds a child; a node is acked once it was acked itself and all    *)
(* its children are acked; a Nack anywhere marks the root nacked.          *)
(***************************************************************************)
AckNodes == 1..MaxAckNodes
Root == 1
Errors == {"e1", "e2"}

Children(t, n) == {c \in AckNodes : t.used[c] /\ t.parent[c] = n}
FreeNodes(t) == {n \in AckNodes : ~t.used[n]}
NewNode(t) == CHOOSE n \in FreeNodes(t) : \A m \in FreeNodes(t) : n <= m

\* the event of node n can still be cloned, acked or nacked
Live(t, n) == t.used[n] /\ ~t.selfDone[n]

\* Clone: a new open child of n; n now also waits for that child
Clone(t, n) ==
    LET c == NewNode(t)
    IN  [t EXCEPT !.used[c] = TRUE, !.parent[c] = n, !.status[c] = "open",
                  !.selfDone[c] = FALSE, !.count[c] = 1, !.count[n] = @ + 1]

\* one outstanding acknowledgement of n is done; at zero n is acked and its
\* parent is told, and at the root the callback fires
RECURSIVE Release(_, _)
Release(t, n) ==
    LET t1 == [t EXCEPT !.count[n] = @ - 1]
    IN  IF t1.count[n] > 0 THEN t1
        ELSE LET t2 == IF t1.status[n] = "open"
                       THEN [t1 EXCEPT !.status[n] = "acked"] ELSE t1
             IN  IF n = Root
                 \* the root callback fires as Ack, unless the tree has
                 \* terminated already
                 THEN IF t2.result = "none"
                      THEN [t2 EXCEPT !.fired = @ + 1, !.result = "ack"] ELSE t2
                 ELSE Release(t2, t2.parent[n])

\* Ack that reports the node to its parent without waiting for its children
Ack_IgnoresChildren(t, n) ==
    IF ~Live(t, n) THEN t
    ELSE LET t1 == [t EXCEPT !.selfDone[n] = TRUE, !.count[n] = 1]
         IN  Release(t1, n)

\* Ack: terminal; the node's own acknowledgement is done
Ack(t, n) ==
    IF ~Live(t, n) THEN t
    ELSE Release([t EXCEPT !.selfDone[n] = TRUE], n)

\* Nack: terminal; marks the root nacked and fires the root callback with the
\* error, unless the tree has terminated already
Nack(t, n, e) ==
    IF ~Live(t, n) THEN t
    ELSE LET t1 == [t EXCEPT !.selfDone[n] = TRUE, !.status[n] = "nacked"]
         IN  IF t1.result # "none" THEN t1
             ELSE [t1 EXCEPT !.status[Root] = "nacked", !.fired = @ + 1,
                             !.result = "nack", !.err = e]

(***************************************************************************)
(* JSON values of event payloads.                                          *)
(***************************************************************************)
JNil == [type |-> "nil"]
JNum == [type |-> "number"]
JStr(str) == [type |-> "string", str |-> str]

(***************************************************************************)
(* The split filter.                                                       *)
(***************************************************************************)

\* the input was nacked and nothing is returned
Nacked(t, n, e, clones) ==
    [tree |-> Nack(t, n, e), events |-> <<>>, acks |-> 0, nacks |-> 1,
     clones |-> clones]

\* the loop over the array from its i-th element on: clone, set the payload,
\* append; a failing Clone or SetPayload nacks the input and returns nothing;
\* after the loop the input is acked
RECURSIVE SplitLoop(_, _, _, _, _, _, _)
SplitLoop(t, n, arr, i, events, cloneFailAt, setFailAt) ==
    IF i > Len(arr)
    THEN [tree |-> Ack(t, n), events |-> events, acks |-> 1, nacks |-> 0,
          clones |-> Len(arr)]
    ELSE IF cloneFailAt = i THEN Nacked(t, n, "e2", i - 1)
    ELSE LET nevt == NewNode(t)
             t1 == Clone(t, n)
         IN  IF setFailAt = i THEN Nacked(t1, n, "e2", i)
             ELSE SplitLoop(t1, n, arr, i + 1,
                            Append(events, [node |-> nevt, payload |-> arr[i]]),
                            cloneFailAt, setFailAt)

\* split whose clones keep the payload of the input
SplitFilter_KeepsPayload(t, n, nilFilter, obj, cloneFailAt, setFailAt) ==
    IF nilFilter THEN Nacked(t, n, "e1", 0)
    ELSE IF obj.type = "nil" THEN Nacked(t, n, "e1", 0)
    ELSE IF obj.type # "array" THEN Nacked(t, n, "e1", 0)
    ELSE LET r == SplitLoop(t, n, obj.items, 1, <<>>, cloneFailAt, setFailAt)
         IN  [r EXCEPT !.events =
                  [i \in DOMAIN r.events |-> [r.events[i] EXCEPT !.payload = obj]]]

\* split that acks its input before it clones it
SplitFilter_AcksFirst(t, n, nilFilter, obj, cloneFailAt, setFailAt) ==
    IF nilFilter THEN Nacked(t, n, "e1", 0)
    ELSE IF obj.type = "nil" THEN Nacked(t, n, "e1", 0)
    ELSE IF obj.type # "array" THEN Nacked(t, n, "e1", 0)
    ELSE SplitLoop(Ack(t, n), n, obj.items, 1, <<>>, cloneFailAt, setFailAt)

\* split that takes a value that is not an array for an array of one element
SplitFilter_WrapsScalar(t, n, nilFilter, obj, cloneFailAt, setFailAt) ==
    IF nilFilter THEN Nacked(t, n, "e1", 0)
    ELSE IF obj.type = "nil" THEN Nacked(t, n, "e1", 0)
    ELSE IF obj.type # "array"
         THEN SplitLoop(t, n, <<obj>>, 1, <<>>, cloneFailAt, setFailAt)
    ELSE SplitLoop(t, n, obj.items, 1, <<>>, cloneFailAt, setFailAt)

\* split that returns on an empty array without terminating its input
SplitFilter_SilentOnEmpty(t, n, nilFilter, obj, cloneFailAt, setFailAt) ==
    IF nilFilter THEN Nacked(t, n, "e1", 0)
    ELSE IF obj.type = "nil" THEN Nacked(t, n, "e1", 0)
    ELSE IF obj.type # "array" THEN Nacked(t, n, "e1", 0)
    ELSE IF obj.items = <<>>
         THEN [tree |-> t, events |-> <<>>, acks |-> 0, nacks |-> 0, clones |-> 0]
    ELSE SplitLoop(t, n, obj.items, 1, <<>>, cloneFailAt, setFailAt)

\* split.Filter on the event of node n, obj being the value at the path
SplitFilter(t, n, nilFilter, obj, cloneFailAt, setFailAt) ==
    IF nilFilter THEN Nacked(t, n, "e1", 0)
    ELSE IF obj.type = "nil" THEN Nacked(t, n, "e1", 0)
    ELSE IF obj.type # "array" THEN Nacked(t, n, "e1", 0)
    ELSE SplitLoop(t, n, obj.items, 1, <<>>, cloneFailAt, setFailAt)

(***************************************************************************)
(* The modify filter.                                                      *)
(***************************************************************************)
ToUpper(str) == CASE str = "Ab" -> "AB" [] str = "q1" -> "Q1" [] OTHER -> str
ToLower(str) == CASE str = "Ab" -> "ab" [] str = "Q1" -> "q1" [] OTHER -> str

\* the loop over the paths: a string is upper-cased, else lower-cased if so
\* configured; any other value and a missing value are skipped
RECURSIVE ModifyLoop(_, _, _)
ModifyLoop(payload, paths, config) ==
    IF paths = <<>> THEN payload
    ELSE LET p == Head(paths)
             obj == payload[p]
             set == IF obj.type # "string" THEN payload
                    ELSE IF config.toUpper
                         THEN [payload EXCEPT ![p] = JStr(ToUpper(obj.str))]
                    ELSE IF config.toLower
                         THEN [payload EXCEPT ![p] = JStr(ToLower(obj.str))]
                    ELSE payload
         IN  ModifyLoop(set, Tail(paths), config)

\* a modify filter that reads Path and leaves Paths out
ModifyFilter_PathOnly(t, n, nilFilter, payload, config) ==
    IF nilFilter THEN Nacked(t, n, "e1", 0)
    ELSE [tree |-> t,
          events |-> <<[node |-> n,
                        payload |-> ModifyLoop(payload,
                                       IF config.path # "" THEN <<config.path>>
                                       ELSE <<>>, config)]>>,
          acks |-> 0, nacks |-> 0, clones |-> 0]

\* modify.Filter on the event of node n: the event itself is returned
ModifyFilter(t, n, nilFilter, payload, config) ==
    IF nilFilter THEN Nacked(t, n, "e1", 0)
    ELSE [tree |-> t,
          events |-> <<[node |-> n,
                        payload |-> ModifyLoop(payload,
                                       (IF config.path # "" THEN <<config.path>>
                                        ELSE <<>>) \o config.paths,
                                       config)]>>,
          acks |-> 0, nacks |-> 0, clones |-> 0]

\* the payload and the config of a filter that is not a modify filter
NoPayload == [p |-> JNil, q |-> JNil]
NoModifyConfig == [path |-> "", paths |-> <<>>, toUpper |-> FALSE, toLower |-> FALSE]

(***************************************************************************)
(* The dedup filter: drops an event whose fingerprint it has seen within   *)
(* a sliding window bounded by count.  The fingerprint is the value at the *)
(* selected path.                                                          *)
(***************************************************************************)

\* a dedup filter that nacks a duplicate
Dedup_NacksDuplicate(window, payload) ==
    IF \E i \in DOMAIN window : window[i] = payload.key
    THEN [window |-> window, events |-> <<>>, acks |-> 0, nacks |-> 1]
    ELSE [window |-> IF Len(window) < MaxWindow THEN Append(window, payload.key)
                     ELSE Append(Tail(window), payload.key),
          events |-> <<payload>>, acks |-> 0, nacks |-> 0]

\* dedup.Filter: an event whose fingerprint is in the window is dropped (acked,
\* no event); any other is emitted as it is and its fingerprint enters the
\* window, from which the oldest fingerprint leaves when the window is full
Dedup(window, payload) ==
    IF \E i \in DOMAIN window : window[i] = payload.key
    THEN [window |-> window, events |-> <<>>, acks |-> 1, nacks |-> 0]
    ELSE [window |-> IF Len(window) < MaxWindow THEN Append(window, payload.key)
                     ELSE Append(Tail(window), payload.key),
          events |-> <<payload>>, acks |-> 0, nacks |-> 0]


(***************************************************************************)
(* The discord sender.                                                     *)
(***************************************************************************)
JObj(content) == [type |-> "object", content |-> content]

\* initPlugin: s.sess is set once discordgo.New succeeded; the error of
\* discordgo.New or of sess.Open is returned
initPlugin(outcome) ==
    CASE outcome = "New fails" -> [sess |-> "nil", err |-> "error"]
      [] outcome = "Open fails" -> [sess |-> "closed", err |-> "error"]
      [] outcome = "opened" -> [sess |-> "open", err |-> "nil"]

\* the configs given to a factory: one that does not parse, one that parses
\* and fails Validate, a valid one
FactoryConfigs == {"unparsable", "invalid", "valid"}

\* discord NewSender: the error of initPlugin is dropped
NewSender(config, outcome) ==
    IF config = "unparsable" THEN [err |-> "InvalidConfigError", instance |-> "none"]
    ELSE IF config = "invalid" THEN [err |-> "validation error", instance |-> "none"]
    ELSE [err |-> "nil", instance |-> initPlugin(outcome).sess]

\* split NewFilter
NewFilter(config) ==
    IF config = "unparsable" THEN [err |-> "InvalidConfigError", instance |-> "none"]
    ELSE IF config = "invalid" THEN [err |-> "validation error", instance |-> "none"]
    ELSE [err |-> "nil", instance |-> "filter"]

\* Sender.Send on the event of node n: the type assertion of the payload to a
\* map has no ok result and panics on any other type; a missing or non-string
\* content nacks; the message is sent through s.sess, a nil pointer when
\* initPlugin failed
Send(t, n, payload, sess, sendFails) ==
    IF payload.type # "object"
    THEN [tree |-> t, acks |-> 0, nacks |-> 0, panicked |-> TRUE]
    ELSE IF payload.content.type # "string"
    THEN [tree |-> Nack(t, n, "e1"), acks |-> 0, nacks |-> 1, panicked |-> FALSE]
    ELSE IF sess = "nil"
    THEN [tree |-> t, acks |-> 0, nacks |-> 0, panicked |-> TRUE]
    ELSE IF sendFails
    THEN [tree |-> Nack(t, n, "e2"), acks |-> 0, nacks |-> 1, panicked |-> FALSE]
    ELSE [tree |-> Ack(t, n), acks |-> 1, nacks |-> 0, panicked |-> FALSE]

(***************************************************************************)
(* The SQS receiver.                                                       *)
(***************************************************************************)
Messages == {"m1", "m2"}
Stoppers == {"s1", "s2"}

(***************************************************************************)
(* The synchronizer: a periodic pass that diffs the store against the live *)
(* set and adds, removes and replaces live routes.                         *)
(***************************************************************************)
SyncIds == {"r1", "r2"}

NoRoute == [hash |-> "none", inactive |-> FALSE]

\* the live route the store asks for: the hash of a stored route not marked
\* inactive
Projection(store) ==
    [id \in SyncIds |-> IF store[id].inactive THEN "none" ELSE store[id].hash]

ToAdd(store, live) ==
    {id \in SyncIds : Projection(store)[id] # "none" /\ live[id] = "none"}
ToRemove(store, live) ==
    {id \in SyncIds : Projection(store)[id] = "none" /\ live[id] # "none"}
ToReplace(store, live) ==
    {id \in SyncIds : /\ Projection(store)[id] # "none" /\ live[id] # "none"
                      /\ Projection(store)[id] # live[id]}

\* a pass that adds and removes but leaves a route with another hash alone
Synchronize_AddAndRemoveOnly(store, live, fails) ==
    [id \in SyncIds |->
        IF id \in (ToAdd(store, live) \cup ToRemove(store, live)) \ fails
        THEN Projection(store)[id] ELSE live[id]]

\* one pass: each route to add, remove or replace is applied, one by one under
\* the mutex; one that fails is logged and left for the next pass
Synchronize(store, live, fails) ==
    [id \in SyncIds |->
        IF id \in (ToAdd(store, live) \cup ToRemove(store, live)
                     \cup ToReplace(store, live)) \ fails
        THEN Projection(store)[id] ELSE live[id]]

(***************************************************************************)
(* The HTTP surface: errors and their responses.                           *)
(***************************************************************************)
\* the error types convertToApiError looks for, and any other error
ErrorKinds ==
    {"TenantNotFoundError", "tenant.BadConfigError", "tablemgr.BadConfigError",
     "RouteValidationError", "RouteRegistrationError", "RouteNotFoundError",
     "JWTAuthError", "UnauthorizedError", "other"}

\* errors.As: some error of the chain is of the kind
As(err, kind) == \E i \in DOMAIN err : err[i] = kind

\* convertToApiError: the first branch whose kind is found in the chain
convertToApiError(err) ==
    IF As(err, "TenantNotFoundError") THEN "NotFoundError"
    ELSE IF As(err, "tenant.BadConfigError") THEN "BadRequestError"
    ELSE IF As(err, "tablemgr.BadConfigError") THEN "BadRequestError"
    ELSE IF As(err, "RouteRegistrationError") THEN "BadRequestError"
    ELSE IF As(err, "RouteValidationError") THEN "BadRequestError"
    ELSE IF As(err, "RouteNotFoundError") THEN "NotFoundError"
    ELSE IF As(err, "JWTAuthError") THEN "BadRequestError"
    ELSE IF As(err, "UnauthorizedError") THEN "BadRequestError"
    ELSE "InternalServerError"

\* the HTTP status of an ApiError
StatusCode(apiError) ==
    CASE apiError = "BadRequestError" -> 400
      [] apiError = "NotFoundError" -> 404
      [] apiError = "InternalServerError" -> 500

\* the status the error kinds are to give: 400 bad config and validation,
\* 401 auth, 404 not found, 500 otherwise
StatusOfKind(kind) ==
    CASE kind \in {"tenant.BadConfigError", "tablemgr.BadConfigError",
                   "RouteValidationError", "RouteRegistrationError"} -> 400
      [] kind \in {"JWTAuthError", "UnauthorizedError"} -> 401
      [] kind \in {"TenantNotFoundError", "RouteNotFoundError"} -> 404
      [] OTHER -> 500

\* the kinds of an error that are not "other"
KnownKinds(err) == {err[i] : i \in DOMAIN err} \ {"other"}

(***************************************************************************)
(* The HTTP surface: the tenant of a request and the status of the plugins. *)
(***************************************************************************)
\* getTenant: the tenant id of the URL variables, nil when orgId or appId is
\* empty or does not match its validator ("bad!" stands for such ids)
getTenant(vars) ==
    IF vars.orgId = "" \/ vars.appId = "" THEN Nil
    ELSE IF vars.appId = "bad!" THEN Nil
    ELSE IF vars.orgId = "bad!" THEN Nil
    ELSE [orgId |-> vars.orgId, appId |-> vars.appId]

\* getAllSendersHandler (getAllReceiversHandler and getAllFiltersHandler are
\* the same code on the receivers and the filters): the senders of the tenant
\* of the request, every sender when getTenant gives no tenant
getAllSendersHandler(vars, allSenders, fails) ==
    IF fails THEN [status |-> StatusCode(convertToApiError(<<"other">>)), items |-> {}]
    ELSE IF getTenant(vars) # Nil
    THEN [status |-> 200, items |-> {v \in allSenders : v.tid = getTenant(vars)}]
    ELSE [status |-> 200, items |-> allSenders]


(***************************************************************************)
(* The HTTP surface: the event endpoint of a route and the global webhook. *)
(***************************************************************************)
\* the URL variables orgId, appId, routeId of a request: all of them set, or
\* one of them empty
UrlVars ==
    {v \in [orgId : {"", "comcast"}, appId : {"", "gears"},
            routeId : {"", "gearsWebhook"}] :
        Cardinality({f \in DOMAIN v : v[f] = ""}) <= 1}

\* the two endpoints a request is posted to; r.URL.Path is the path of the
\* endpoint: that of the event endpoint of the route, or /ears/v1/events
Endpoints == {"route", "webhook"}

\* what the collaborators of the handler answer to its calls: the tenant cache,
\* the tenant storer, the JWT manager (by the path it is given), the routing
\* table manager; one that is not asked answers no error
Collaborators ==
    {env \in [cacheHit : BOOLEAN,
              openEventApi : BOOLEAN,
              getConfig : {<<>>, <<"TenantNotFoundError">>, <<"other">>},
              verifyToken : [Endpoints -> {<<>>, <<"UnauthorizedError">>}],
              getRoute : {<<>>, <<"RouteNotFoundError">>},
              routeEvent : {<<>>, <<"other">>}] :
        /\ env.cacheHit => env.getConfig = <<>>
        /\ env.openEventApi => \A e \in Endpoints : env.verifyToken[e] = <<>>
        /\ env.getRoute # <<>> => env.routeEvent = <<>>}

\* a response with an error, and the response to a routed event
ErrorResponse(apiError, leaked) ==
    [status |-> StatusCode(apiError), routeId |-> "", routed |-> "",
     leaked |-> leaked]
ItemResponse(routeId, payload) ==
    [status |-> 200, routeId |-> routeId, routed |-> payload, leaked |-> FALSE]

\* a sendEventHandler that routes the event without asking for the route
sendEventHandler_SkipsGetRoute(vars, endpoint, body, env) ==
    IF getTenant(vars) = Nil
    THEN ErrorResponse("BadRequestError", FALSE)
    ELSE IF ~env.cacheHit /\ env.getConfig # <<>>
    THEN ErrorResponse(convertToApiError(env.getConfig), TRUE)
    ELSE IF ~env.openEventApi /\ env.verifyToken[endpoint] # <<>>
    THEN ErrorResponse(convertToApiError(env.verifyToken[endpoint]), FALSE)
    ELSE IF body = "unreadable" THEN ErrorResponse("InternalServerError", FALSE)
    ELSE IF body = "not json" THEN ErrorResponse("BadRequestError", FALSE)
    ELSE IF vars.routeId = "" THEN ErrorResponse(convertToApiError(<<>>), FALSE)
    ELSE IF env.routeEvent # <<>>
    THEN [ErrorResponse(convertToApiError(env.routeEvent), FALSE) EXCEPT !.routed = body]
    ELSE ItemResponse(vars.routeId, body)

\* sendEventHandler on a request with these URL variables, posted to this
\* endpoint; leaked: the handler returned without unlocking the APIManager;
\* routed: the payload RouteEvent was called with
sendEventHandler(vars, endpoint, body, env) ==
    IF getTenant(vars) = Nil
    THEN ErrorResponse("BadRequestError", FALSE)
    ELSE IF ~env.cacheHit /\ env.getConfig # <<>>
    THEN ErrorResponse(convertToApiError(env.getConfig), TRUE)
    ELSE IF ~env.openEventApi /\ env.verifyToken[endpoint] # <<>>
    THEN ErrorResponse(convertToApiError(env.verifyToken[endpoint]), FALSE)
    ELSE IF body = "unreadable" THEN ErrorResponse("InternalServerError", FALSE)
    ELSE IF body = "not json" THEN ErrorResponse("BadRequestError", FALSE)
    ELSE IF vars.routeId = "" THEN ErrorResponse(convertToApiError(<<>>), FALSE)
    ELSE IF env.getRoute # <<>>
    THEN ErrorResponse(convertToApiError(env.getRoute), FALSE)
    ELSE IF env.routeEvent # <<>>
    THEN [ErrorResponse(convertToApiError(env.routeEvent), FALSE) EXCEPT !.routed = body]
    ELSE ItemResponse(vars.routeId, body)

\* webhookHandler: the URL variables are set from the configuration, the
\* request is otherwise passed on as it came
webhookHandler(webhook, body, env) ==
    IF webhook.orgId = "" \/ webhook.appId = "" \/ webhook.routeId = ""
    THEN ErrorResponse(convertToApiError(<<"other">>), FALSE)
    ELSE sendEventHandler(webhook, "webhook", body, env)

\* no call yet; webhook holds the URL variables of the request, items the
\* plugins a status request was answered, route the route config of the body
\* of a request to add a route, added the route AddRoute was called with
NoApiCall ==
    [op |-> "none", locked |-> FALSE, err |-> <<>>, status |-> 0, items |-> {},
     route |-> Nil, added |-> Nil,
     webhook |-> [orgId |-> "", appId |-> "", routeId |-> ""],
     body |-> "{k:1}", endpoint |-> "route",
     env |-> [cacheHit |-> TRUE, openEventApi |-> TRUE, getConfig |-> <<>>,
              verifyToken |-> [e \in Endpoints |-> <<>>], getRoute |-> <<>>,
              routeEvent |-> <<>>],
     onRoute |-> ItemResponse("", ""), onWebhook |-> ItemResponse("", "")]

(***************************************************************************)
(* The HTTP surface: adding a route.                                       *)
(***************************************************************************)
\* an addRouteHandler that leaves the tenant of the body in the route
addRouteHandler_KeepsBodyTenant(vars, body, route, getConfig, addRoute) ==
    IF getTenant(vars) = Nil THEN [status |-> StatusCode("BadRequestError"), added |-> Nil]
    ELSE IF getConfig # <<>>
    THEN [status |-> StatusCode(convertToApiError(getConfig)), added |-> Nil]
    ELSE IF body = "unreadable"
    THEN [status |-> StatusCode("InternalServerError"), added |-> Nil]
    ELSE IF body = "not yaml"
    THEN [status |-> StatusCode("BadRequestError"), added |-> Nil]
    ELSE IF vars.routeId # "" /\ route.id # "" /\ vars.routeId # route.id
    THEN [status |-> StatusCode("BadRequestError"), added |-> Nil]
    ELSE LET given == [route EXCEPT
                          !.id = IF vars.routeId # "" /\ @ = "" THEN vars.routeId ELSE @]
         IN  [status |-> IF addRoute # <<>> THEN StatusCode(convertToApiError(addRoute))
                         ELSE 200,
              added |-> given]

\* addRouteHandler on a request with these URL variables and this body, which
\* when it parses is this route config; added: the route AddRoute was called
\* with, nil when it was not called
addRouteHandler(vars, body, route, getConfig, addRoute) ==
    IF getTenant(vars) = Nil THEN [status |-> StatusCode("BadRequestError"), added |-> Nil]
    ELSE IF getConfig # <<>>
    THEN [status |-> StatusCode(convertToApiError(getConfig)), added |-> Nil]
    ELSE IF body = "unreadable"
    THEN [status |-> StatusCode("InternalServerError"), added |-> Nil]
    ELSE IF body = "not yaml"
    THEN [status |-> StatusCode("BadRequestError"), added |-> Nil]
    ELSE IF vars.routeId # "" /\ route.id # "" /\ vars.routeId # route.id
    THEN [status |-> StatusCode("BadRequestError"), added |-> Nil]
    ELSE LET given == [route EXCEPT
                          !.id = IF vars.routeId # "" /\ @ = "" THEN vars.routeId ELSE @,
                          !.appId = vars.appId, !.orgId = vars.orgId]
         IN  [status |-> IF addRoute # <<>> THEN StatusCode(convertToApiError(addRoute))
                         ELSE 200,
              added |-> given]


(***************************************************************************)
(* The tenant cache.                                                       *)
(***************************************************************************)
TENANT_CACHE_TTL_SECS == 30

TenantKeys == {"comcast.gears"}
TenantConfigs == {"c1", "c2"}

\* the goroutines that call the cache (the handlers of the HTTP surface)
CacheCallers == {"h1", "h2"}

\* a key without item
NoItem == [config |-> "none", ts |-> 0 - 1]

\* a caller that is in no call of the cache
CacheIdle == [pc |-> "idle", config |-> "none"]

\* no cache was built yet: c.cache is nil
NoTenantCache ==
    [built |-> FALSE, ttlSecs |-> 0, cache |-> [k \in TenantKeys |-> NoItem],
     now |-> 0,
     op |-> "none", result |-> "nil", age |-> 0 - 1, evicted |-> FALSE,
     at |-> [g \in CacheCallers |-> CacheIdle], crashed |-> FALSE]

\* NewTenantCache
NewTenantCache(ttlSecs) ==
    [NoTenantCache EXCEPT !.built = TRUE, !.ttlSecs = ttlSecs]

\* SetTenant: the item gets the time of the call
SetTenant(c, key, config) ==
    IF ~c.built THEN c
    ELSE [c EXCEPT !.cache[key] = [config |-> config, ts |-> c.now]]

\* the item of the key is older than the time to live GetTenant goes by
Expired(c, key) == c.now - c.cache[key].ts > TENANT_CACHE_TTL_SECS

\* GetTenant: nil for the empty id, a nil cache and a missing key; an item
\* older than TENANT_CACHE_TTL_SECS is deleted and nil returned
GetTenant(c, key) ==
    IF key = "" \/ ~c.built THEN [cache |-> c.cache, result |-> "nil"]
    ELSE IF c.cache[key] = NoItem THEN [cache |-> c.cache, result |-> "nil"]
    ELSE IF Expired(c, key)
    THEN [cache |-> [c.cache EXCEPT ![key] = NoItem], result |-> "nil"]
    ELSE [cache |-> c.cache, result |-> c.cache[key].config]

(***************************************************************************)
(* The tenant configs kept by the tenant storer.                           *)
(***************************************************************************)
\* tenantConfig.OpenEventApi: set in c1, not set in c2
OpenEventApi(config) == config = "c1"

(***************************************************************************)
(* State.                                                                  *)
(***************************************************************************)
VARIABLES
    routingTableIndex,  \* InMemoryRoutingTableManager.routingTableIndex: hash -> entry
    storage,            \* DefaultRoutingTableManager.storageMgr: (tenant, id) -> route
    registry,           \* plugin registry: refcounts, running instances, handles
    lastOp,             \* the call that was made last, its argument and its result
    pc,                 \* where each goroutine stands inside a manager method
    crashed,            \* the Go runtime has thrown a concurrent map access error
    ack,                \* the acknowledgement tree of one receiver emission
    flt,                \* the last filter invocation on an event of that tree
    snd,                \* the discord sender and its last Send
    sqs,                \* the SQS receiver, its goroutines and its queue
    syn,                \* the route store shared with the peers and the live set kept in sync with it
    api,                \* the HTTP surface: its lock and the last call of a handler
    tc,                 \* the tenant cache, the clock and the callers of the cache
    fac,                \* the last call of a plugin factory
    dd,                 \* the dedup filter: its window and its last invocation
    ten                 \* the tenant storer, the routes of the tenant and the handlers at work on them

\* the state of the routing table managers and of the plugin registry
mgrVars == <<routingTableIndex, storage, registry, lastOp, pc, crashed>>

\* the state of the events and plugins
pluginVars == <<ack, flt, snd, sqs, syn, api, tc, fac, dd, ten>>

vars ==
    <<routingTableIndex, storage, registry, lastOp, pc, crashed, ack, flt, snd, sqs,
      syn, api, tc, fac, dd, ten>>

NoOp == [op |-> "none", entry |-> Nil, entries |-> <<>>, err |-> "ok",
         found |-> FALSE, again |-> FALSE, setFails |-> FALSE,
         undoes |-> FALSE, before |-> EmptyMap, plugin |-> "", result |-> <<>>]

\* the call op(arg) repeats the call made just before, which succeeded
Again(op, arg) == lastOp.op = op /\ lastOp.entry = arg /\ lastOp.err = "ok"

\* the goroutines that call the manager concurrently
Goroutines == {"g1", "g2"}

\* a goroutine that is in no manager method
Idle == [at |-> "idle", entry |-> Nil, entries |-> <<>>, i |-> 0, stale |-> FALSE]

Init ==
    /\ pc = [g \in Goroutines |-> Idle]
    /\ crashed = FALSE
    /\ routingTableIndex = EmptyMap
    /\ storage = EmptyMap
    /\ registry = [refcount |-> [k \in PluginKeys |-> 0], running |-> {}, handles |-> {}]
    /\ lastOp = NoOp
    \* event.New: a tree with the root alone, refcount 1, open
    /\ ack = [used     |-> [n \in AckNodes |-> n = Root],
             parent   |-> [n \in AckNodes |-> 0],
             selfDone |-> [n \in AckNodes |-> FALSE],
             status   |-> [n \in AckNodes |-> "open"],
             count    |-> [n \in AckNodes |-> IF n = Root THEN 1 ELSE 0],
             fired    |-> 0,
             result   |-> "none",
             err      |-> "none",
             firstErr |-> "none"]
    /\ flt = [filter |-> "none", input |-> 0, nilFilter |-> FALSE, obj |-> JNil,
            payload |-> NoPayload, config |-> NoModifyConfig, cloneFailAt |-> 0,
            setFailAt |-> 0, events |-> <<>>, acks |-> 0, nacks |-> 0, clones |-> 0]
    /\ snd = [sess |-> "none", op |-> "none", payload |-> JNil, acks |-> 0,
            nacks |-> 0, panicked |-> FALSE]
    /\ sqs = [recv    |-> "idle",      \* the caller of Receive
              done    |-> FALSE,       \* r.done is a channel
              lock    |-> "free",      \* the holder of the receiver's mutex
              loop    |-> "none",      \* the goroutine started by Receive
              stop    |-> [c \in Stoppers |-> "idle"],  \* the callers of StopReceiving
              queue   |-> Messages,    \* the messages in the queue
              batch   |-> <<>>,        \* sqsResp.Messages
              idx     |-> 1,           \* the message the loop is at
              entries |-> <<>>,        \* the entries of the delete request
              events  |-> <<>>,        \* the events triggered from the batch
              wg      |-> 0,           \* batchDone
              stoppedReceive |-> FALSE,  \* a StopReceiving has released Receive and returned
              nextAfterStop  |-> FALSE]  \* next was invoked after that
    /\ syn = [store |-> [id \in SyncIds |-> NoRoute],
            live |-> [id \in SyncIds |-> "none"], op |-> "none", failed |-> {},
            changed |-> {}]
    /\ api = NoApiCall
    /\ tc = NoTenantCache
    /\ fac = [op |-> "none", config |-> "valid", outcome |-> "opened", err |-> "nil",
            instance |-> "none"]
    /\ dd = [window |-> <<>>, seen |-> {}, op |-> "none",
             payload |-> [key |-> "f1", other |-> "a"], wasSeen |-> FALSE,
             inWindow |-> FALSE, events |-> <<>>, acks |-> 0, nacks |-> 0]
    \* no tenant config is stored, no request was made
    /\ ten = [stored |-> "none", locked |-> FALSE, op |-> "none", used |-> "none",
             verified |-> FALSE, status |-> 0, routes |-> {},
             at |-> [g \in CacheCallers |-> "idle"]]

(***************************************************************************)
(* One action per call, made by a single caller.                           *)
(***************************************************************************)
AddRouteCall(entry) ==
    LET r == AddRoute(routingTableIndex, entry)
    IN  /\ routingTableIndex' = r.index
        /\ lastOp' = [NoOp EXCEPT !.op = "AddRoute", !.entry = entry,
                        !.again = Again("AddRoute", entry), !.err = r.err,
                        !.before = routingTableIndex,
                        !.found = (entry # Nil /\ Hash(entry) \in DOMAIN routingTableIndex)]
        /\ UNCHANGED <<storage, registry, pc, crashed>>
        /\ UNCHANGED pluginVars

RemoveRouteCall(entry) ==
    LET r == RemoveRoute(routingTableIndex, entry)
    IN  /\ routingTableIndex' = r.index
        /\ lastOp' = [NoOp EXCEPT !.op = "RemoveRoute", !.entry = entry,
                        !.again = Again("RemoveRoute", entry), !.err = r.err,
                        !.undoes = (/\ lastOp.op = "AddRoute" /\ lastOp.entry = entry
                                    /\ lastOp.err = "ok" /\ ~lastOp.found),
                        !.found = (entry # Nil /\ Hash(entry) \in DOMAIN routingTableIndex)]
        /\ UNCHANGED <<storage, registry, pc, crashed>>
        /\ UNCHANGED pluginVars

ReplaceAllRoutesCall(entries) ==
    LET r == ReplaceAllRoutes(routingTableIndex, entries)
    IN  /\ routingTableIndex' = r.index
        /\ lastOp' = [NoOp EXCEPT !.op = "ReplaceAllRoutes", !.entries = entries,
                        !.err = r.err]
        /\ UNCHANGED <<storage, registry, pc, crashed>>
        /\ UNCHANGED pluginVars

DefaultAddRouteCall(route, fails) ==
    LET r == DefaultAddRoute(storage, route, fails)
    IN  /\ storage' = r.store
        /\ lastOp' = [NoOp EXCEPT !.op = "DefaultAddRoute", !.entry = route,
                        !.again = Again("DefaultAddRoute", route),
                        !.err = r.err, !.setFails = fails,
                        !.found = (RouteKey(route) \in DOMAIN storage)]
        /\ UNCHANGED <<routingTableIndex, registry, pc, crashed>>
        /\ UNCHANGED pluginVars

Spec ==
    /\ Init
    /\ [][
        \/ \E entry \in Entries : AddRouteCall(entry)
        \/ \E entry \in Entries : RemoveRouteCall(entry)
        \/ \E entries \in SeqsUpTo(ReplacePool, MaxReplaceLen) : ReplaceAllRoutesCall(entries)
        \/ \E route \in {e \in RoutingTableEntry :
                             e.tenant = "comcast/xfi" /\ e.id = "r1" /\ e.name = "a"},
              fails \in BOOLEAN : DefaultAddRouteCall(route, fails)
      ]_vars

(***************************************************************************)
(* The queries of the in-memory manager, made by a single caller.          *)
(***************************************************************************)

GetAllRoutesCall ==
    \E order \in MapOrders(routingTableIndex) :
        /\ lastOp' = [NoOp EXCEPT !.op = "GetAllRoutes",
                        !.result = GetAllRoutes(routingTableIndex, order)]
        /\ UNCHANGED <<routingTableIndex, storage, registry, pc, crashed>>
        /\ UNCHANGED pluginVars

GetRoutesBySourcePluginCall ==
    \E order \in MapOrders(routingTableIndex),
       plugin \in [plugin : {"debug", "bogus", "match"}, name : {"a"}] :
        /\ lastOp' = [NoOp EXCEPT !.op = "GetRoutesBySourcePlugin",
                        !.plugin = PluginHash(plugin),
                        !.result = GetRoutesBySourcePlugin(routingTableIndex, plugin, order)]
        /\ UNCHANGED <<routingTableIndex, storage, registry, pc, crashed>>
        /\ UNCHANGED pluginVars

GetRoutesByDestinationPluginCall ==
    \E order \in MapOrders(routingTableIndex),
       plugin \in [plugin : {"debug", "bogus", "match"}, name : {"a"}] :
        /\ lastOp' = [NoOp EXCEPT !.op = "GetRoutesByDestinationPlugin",
                        !.plugin = PluginHash(plugin),
                        !.result = GetRoutesByDestinationPlugin(routingTableIndex, plugin,
                                                                order)]
        /\ UNCHANGED <<routingTableIndex, storage, registry, pc, crashed>>
        /\ UNCHANGED pluginVars

GetRoutesForEventCall ==
    \E order \in MapOrders(routingTableIndex),
       plugin \in [plugin : {"debug", "bogus", "match"}, name : {"a"}] :
        /\ lastOp' = [NoOp EXCEPT !.op = "GetRoutesForEvent",
                        !.plugin = PluginHash(plugin),
                        !.result = GetRoutesForEvent(routingTableIndex,
                                                     [source |-> plugin], order)]
        /\ UNCHANGED <<routingTableIndex, storage, registry, pc, crashed>>
        /\ UNCHANGED pluginVars

SpecQueries ==
    /\ Init
    /\ [][
        \/ \E entry \in Entries : AddRouteCall(entry)
        \/ \E entry \in Entries : RemoveRouteCall(entry)
        \/ GetAllRoutesCall
        \/ GetRoutesBySourcePluginCall
        \/ GetRoutesByDestinationPluginCall
        \/ GetRoutesForEventCall
      ]_vars

(***************************************************************************)
(* The plugin registry driven by route pipelines that start and stop.      *)
(***************************************************************************)
RegisterCall(route, kind, cfg) ==
    LET r == Register(registry, route, kind, cfg)
    IN  /\ registry' = r.reg
        /\ lastOp' = [NoOp EXCEPT !.op = "Register", !.err = r.err,
                        !.found = ([route |-> route, key |-> PluginKey(kind, cfg)]
                                        \in registry.handles)]
        /\ UNCHANGED <<routingTableIndex, storage, pc, crashed>>
        /\ UNCHANGED pluginVars

UnregisterCall(handle) ==
    LET r == Unregister(registry, handle)
    IN  /\ registry' = r.reg
        /\ lastOp' = [NoOp EXCEPT !.op = "Unregister", !.err = r.err,
                        !.found = (handle \in registry.handles)]
        /\ UNCHANGED <<routingTableIndex, storage, pc, crashed>>
        /\ UNCHANGED pluginVars

SpecRegistry ==
    /\ Init
    /\ [][
        \/ \E route \in PipelineIds, kind \in Kinds,
              cfg \in [plugin : {"debug", "match", "bogus"}, name : Names] :
                RegisterCall(route, kind, cfg)
        \/ \E route \in PipelineIds, key \in PluginKeys :
                UnregisterCall([route |-> route, key |-> key])
      ]_vars

(***************************************************************************)
(* The in-memory manager called from several goroutines.  Its methods take *)
(* no lock, so a map assignment, a map delete and a map iteration each     *)
(* span two steps, and steps of different goroutines interleave.  A        *)
(* goroutine that entered a map operation before another goroutine's       *)
(* ReplaceAllRoutes installed a fresh map works on the old, detached map.  *)
(***************************************************************************)
ConcEntries ==
    {e \in Entries : e = Nil \/ (e.id = "r1" /\ e.name = "a" /\ e.tenant # "" /\ e.src # "")}

MapWriteAt == {"mapassign", "mapdelete", "loopdelete"}
MapReadAt == {"mapiter"}

\* g is inside a write to (a read of) the map the manager currently points to
InMapWrite(g) == pc[g].at \in MapWriteAt /\ ~pc[g].stale

\* a write to the map overlaps another access to the same map
RacingOnMap ==
    \E g, h \in Goroutines :
        /\ g # h /\ InMapWrite(g)
        /\ InMapWrite(h) \/ (pc[h].at \in MapReadAt /\ ~pc[h].stale)

\* g is inside a management operation, between its first and its last access
\* to the live index
InManagementOp(g) == pc[g].at \in MapWriteAt \cup {"loop"}

\* the outcomes of a map write: it takes effect, unless the goroutine works
\* on a detached map; a write that races with another access may be lost
WriteOutcomes(g, written) ==
    IF pc[g].stale THEN {routingTableIndex}
    ELSE IF RacingOnMap THEN {written, routingTableIndex}
    ELSE {written}

\* AddRoute up to the start of the map assignment
AddRouteBegin(g, entry) ==
    /\ ~crashed /\ pc[g].at = "idle"
    /\ IF AddRoute(routingTableIndex, entry).err # "ok"
       THEN UNCHANGED pc
       ELSE pc' = [pc EXCEPT ![g] = [Idle EXCEPT !.at = "mapassign", !.entry = entry]]
    /\ UNCHANGED <<routingTableIndex, storage, registry, lastOp, crashed>>
    /\ UNCHANGED pluginVars

\* the map assignment completes and AddRoute returns nil
AddRouteEnd(g) ==
    /\ ~crashed /\ pc[g].at = "mapassign"
    /\ routingTableIndex' \in
            WriteOutcomes(g, AddRoute(routingTableIndex, pc[g].entry).index)
    /\ pc' = [pc EXCEPT ![g] = Idle]
    /\ UNCHANGED <<storage, registry, lastOp, crashed>>
    /\ UNCHANGED pluginVars

\* RemoveRoute up to the start of the map delete
RemoveRouteBegin(g, entry) ==
    /\ ~crashed /\ pc[g].at = "idle"
    /\ IF RemoveRoute(routingTableIndex, entry).err # "ok"
       THEN UNCHANGED pc
       ELSE pc' = [pc EXCEPT ![g] = [Idle EXCEPT !.at = "mapdelete", !.entry = entry]]
    /\ UNCHANGED <<routingTableIndex, storage, registry, lastOp, crashed>>
    /\ UNCHANGED pluginVars

\* the map delete completes and RemoveRoute returns nil
RemoveRouteEnd(g) ==
    /\ ~crashed /\ pc[g].at = "mapdelete"
    /\ routingTableIndex' \in
            WriteOutcomes(g, RemoveRoute(routingTableIndex, pc[g].entry).index)
    /\ pc' = [pc EXCEPT ![g] = Idle]
    /\ UNCHANGED <<storage, registry, lastOp, crashed>>
    /\ UNCHANGED pluginVars

\* ReplaceAllRoutes installs a fresh map; map operations under way elsewhere
\* are left with the old one
ReplaceAllRoutesBegin(g, entries) ==
    /\ ~crashed /\ pc[g].at = "idle"
    /\ routingTableIndex' = EmptyMap
    /\ pc' = [h \in Goroutines |->
                IF h = g THEN [Idle EXCEPT !.at = "loop", !.entries = entries, !.i = 1]
                ELSE IF pc[h].at \in MapWriteAt \cup MapReadAt
                     THEN [pc[h] EXCEPT !.stale = TRUE]
                     ELSE pc[h]]
    /\ UNCHANGED <<storage, registry, lastOp, crashed>>
    /\ UNCHANGED pluginVars

\* one turn of the loop: return at the end of the slice or on a validation
\* error, else start the map delete
ReplaceAllRoutesLoop(g) ==
    /\ ~crashed /\ pc[g].at = "loop"
    /\ IF pc[g].i > Len(pc[g].entries) \/ Validate(pc[g].entries[pc[g].i]) # "ok"
       THEN pc' = [pc EXCEPT ![g] = Idle]
       ELSE pc' = [pc EXCEPT ![g].at = "loopdelete"]
    /\ UNCHANGED <<routingTableIndex, storage, registry, lastOp, crashed>>
    /\ UNCHANGED pluginVars

\* the map delete of the loop completes
ReplaceAllRoutesDeleteEnd(g) ==
    /\ ~crashed /\ pc[g].at = "loopdelete"
    /\ routingTableIndex' \in
            WriteOutcomes(g, MapDelete(routingTableIndex,
                                       Hash(pc[g].entries[pc[g].i])))
    /\ pc' = [pc EXCEPT ![g].at = "loop", ![g].i = @ + 1, ![g].stale = FALSE]
    /\ UNCHANGED <<storage, registry, lastOp, crashed>>
    /\ UNCHANGED pluginVars

\* GetAllRoutes starts to range over the map
GetAllRoutesBegin(g) ==
    /\ ~crashed /\ pc[g].at = "idle"
    /\ pc' = [pc EXCEPT ![g] = [Idle EXCEPT !.at = "mapiter"]]
    /\ UNCHANGED <<routingTableIndex, storage, registry, lastOp, crashed>>
    /\ UNCHANGED pluginVars

\* the range loop ends and GetAllRoutes returns
GetAllRoutesEnd(g) ==
    /\ ~crashed /\ pc[g].at = "mapiter"
    /\ pc' = [pc EXCEPT ![g] = Idle]
    /\ UNCHANGED <<routingTableIndex, storage, registry, lastOp, crashed>>
    /\ UNCHANGED pluginVars

\* the runtime notices a write that overlaps another access to the same map
\* and ends the process ("fatal error: concurrent map writes")
FatalConcurrentMapAccess ==
    /\ ~crashed /\ RacingOnMap
    /\ crashed' = TRUE
    /\ UNCHANGED <<routingTableIndex, storage, registry, lastOp, pc>>
    /\ UNCHANGED pluginVars

SpecConc ==
    /\ Init
    /\ [][
        \/ \E g \in Goroutines, entry \in ConcEntries : AddRouteBegin(g, entry)
        \/ \E g \in Goroutines : AddRouteEnd(g)
        \/ \E g \in Goroutines, entry \in ConcEntries : RemoveRouteBegin(g, entry)
        \/ \E g \in Goroutines : RemoveRouteEnd(g)
        \/ \E g \in Goroutines, entries \in SeqsUpTo(ReplacePool, MaxReplaceLen) :
                ReplaceAllRoutesBegin(g, entries)
        \/ \E g \in Goroutines : ReplaceAllRoutesLoop(g)
        \/ \E g \in Goroutines : ReplaceAllRoutesDeleteEnd(g)
        \/ \E g \in Goroutines : GetAllRoutesBegin(g)
        \/ \E g \in Goroutines : GetAllRoutesEnd(g)
        \/ FatalConcurrentMapAccess
      ]_vars

(***************************************************************************)
(* An acknowledgement tree driven by the holders of its events.            *)
(***************************************************************************)
CloneCall(n) ==
    /\ Live(ack, n) /\ FreeNodes(ack) # {}
    /\ ack' = Clone(ack, n)
    /\ UNCHANGED <<mgrVars, flt, snd, sqs, syn, api, tc, fac, dd, ten>>

AckCall(n) ==
    /\ ack.used[n]
    /\ ack' = Ack(ack, n)
    /\ UNCHANGED <<mgrVars, flt, snd, sqs, syn, api, tc, fac, dd, ten>>

NackCall(n, e) ==
    /\ ack.used[n]
    /\ ack' = [Nack(ack, n, e) EXCEPT
                   !.firstErr = IF @ = "none" /\ Live(ack, n) THEN e ELSE @]
    /\ UNCHANGED <<mgrVars, flt, snd, sqs, syn, api, tc, fac, dd, ten>>

SpecAck ==
    /\ Init
    /\ [][
        \/ \E n \in AckNodes : CloneCall(n)
        \/ \E n \in AckNodes : AckCall(n)
        \/ \E n \in AckNodes, e \in Errors : NackCall(n, e)
      ]_vars

(***************************************************************************)
(* Filters invoked on the events of a tree, and the holders of the events  *)
(* they emit.                                                              *)
(***************************************************************************)
SplitFilterCall(n) ==
    /\ Live(ack, n)
    /\ \E nilFilter \in BOOLEAN,
          obj \in {JNil, JNum, JStr("x")}
                  \cup {[type |-> "array",
                         items |-> [i \in 1..k |-> IF i % 2 = 1 THEN JStr("x")
                                                   ELSE JStr("y")]] :
                           k \in 0..MaxArrayLen},
          cloneFailAt \in 0..MaxArrayLen, setFailAt \in 0..MaxArrayLen :
          /\ obj.type = "array" => Len(obj.items) <= Cardinality(FreeNodes(ack))
          /\ cloneFailAt + setFailAt > 0 =>
                /\ obj.type = "array" /\ ~nilFilter
                /\ cloneFailAt <= Len(obj.items) /\ setFailAt <= Len(obj.items)
                /\ cloneFailAt = 0 \/ setFailAt = 0
          /\ LET r == SplitFilter(ack, n, nilFilter, obj, cloneFailAt, setFailAt)
             IN  /\ ack' = r.tree
                 /\ flt' = [filter |-> "split", input |-> n,
                            nilFilter |-> nilFilter, obj |-> obj,
                            payload |-> NoPayload, config |-> NoModifyConfig,
                            cloneFailAt |-> cloneFailAt, setFailAt |-> setFailAt,
                            events |-> r.events, acks |-> r.acks,
                            nacks |-> r.nacks, clones |-> r.clones]
    /\ UNCHANGED <<mgrVars, snd, sqs, syn, api, tc, fac, dd, ten>>

ModifyFilterCall(n) ==
    /\ Live(ack, n)
    /\ \E nilFilter \in BOOLEAN,
          payload \in {[p |-> JStr("Ab"), q |-> v] : v \in {JNil, JNum, JStr("q1")}},
          config \in [path : {"", "p"}, paths : {<<>>, <<"q">>},
                      toUpper : BOOLEAN, toLower : BOOLEAN] :
          /\ nilFilter => (payload.q = JNil /\ config.path = "" /\ config.paths = <<>>
                           /\ ~config.toUpper /\ ~config.toLower)
          /\ LET r == ModifyFilter(ack, n, nilFilter, payload, config)
             IN  /\ ack' = r.tree
                 /\ flt' = [filter |-> "modify", input |-> n,
                            nilFilter |-> nilFilter, obj |-> JNil,
                            payload |-> payload, config |-> config,
                            cloneFailAt |-> 0, setFailAt |-> 0,
                            events |-> r.events, acks |-> r.acks,
                            nacks |-> r.nacks, clones |-> r.clones]
    /\ UNCHANGED <<mgrVars, snd, sqs, syn, api, tc, fac, dd, ten>>

SpecFilter ==
    /\ Init
    /\ [][
        \/ \E n \in AckNodes : SplitFilterCall(n)
        \/ \E n \in AckNodes : ModifyFilterCall(n)
        \/ \E n \in AckNodes : AckCall(n)
        \/ \E n \in AckNodes, e \in Errors : NackCall(n, e)
      ]_vars

(***************************************************************************)
(* The discord sender at the end of a route.                               *)
(***************************************************************************)
\* NewSender; a sender that is returned is the sender of the route
NewSenderCall ==
    /\ snd.sess = "none"
    /\ \E config \in FactoryConfigs, outcome \in {"New fails", "Open fails", "opened"} :
          LET r == NewSender(config, outcome)
          IN  /\ snd' = [snd EXCEPT !.sess = r.instance]
              /\ fac' = [op |-> "NewSender", config |-> config, outcome |-> outcome,
                         err |-> r.err, instance |-> r.instance]
    /\ UNCHANGED <<mgrVars, ack, flt, sqs, syn, api, tc, dd, ten>>

\* NewFilter of the split filter
NewFilterCall ==
    /\ \E config \in FactoryConfigs :
          LET r == NewFilter(config)
          IN  fac' = [op |-> "NewFilter", config |-> config, outcome |-> "opened",
                      err |-> r.err, instance |-> r.instance]
    /\ UNCHANGED <<mgrVars, ack, flt, snd, sqs, syn, api, tc, dd, ten>>

SendCall(n) ==
    /\ snd.sess # "none" /\ ~snd.panicked
    /\ Live(ack, n)
    /\ \E payload \in {JNil, JStr("x"), JObj(JNil), JObj(JNum), JObj(JStr("hi"))},
          sendFails \in BOOLEAN :
          LET r == Send(ack, n, payload, snd.sess, sendFails)
          IN  /\ ack' = r.tree
              /\ snd' = [snd EXCEPT !.op = "Send", !.payload = payload,
                                    !.acks = r.acks, !.nacks = r.nacks,
                                    !.panicked = r.panicked]
    /\ UNCHANGED <<mgrVars, flt, sqs, syn, api, tc, fac, dd, ten>>

SpecSender ==
    /\ Init
    /\ [][
        \/ NewSenderCall
        \/ NewFilterCall
        \/ \E n \in AckNodes : CloneCall(n)
        \/ \E n \in AckNodes : SendCall(n)
        \/ \E n \in AckNodes : AckCall(n)
        \/ \E n \in AckNodes, e \in Errors : NackCall(n, e)
      ]_vars

(***************************************************************************)
(* The SQS receiver: the caller of Receive, the poll goroutine, the        *)
(* callers of StopReceiving, the holders of the events, the queue.         *)
(***************************************************************************)
\* Receive up to the wait on r.done: a failed session returns the error
ReceiveCall ==
    /\ sqs.recv = "idle" /\ sqs.lock = "free"
    /\ \E sessionFails \in BOOLEAN :
          sqs' = IF sessionFails
                 THEN [sqs EXCEPT !.done = TRUE, !.recv = "failed"]
                 ELSE [sqs EXCEPT !.done = TRUE, !.recv = "waiting", !.loop = "poll"]
    /\ UNCHANGED <<mgrVars, ack, flt, snd, syn, api, tc, fac, dd, ten>>

\* svc.ReceiveMessage: an error ends the loop, else a new batch and WaitGroup
Poll ==
    /\ sqs.loop = "poll"
    /\ \E fails \in BOOLEAN, batch \in SeqsUpTo(sqs.queue, MaxBatch) :
          sqs' = IF fails THEN [sqs EXCEPT !.loop = "deferLock"]
                 ELSE [sqs EXCEPT !.batch = batch, !.idx = 1, !.entries = <<>>,
                                  !.events = <<>>, !.wg = Len(batch),
                                  !.loop = IF batch = <<>> THEN "wait" ELSE "handle"]
    /\ UNCHANGED <<mgrVars, ack, flt, snd, syn, api, tc, fac, dd, ten>>

\* one message of the batch: a delete entry unless its id was seen, then the
\* event is made and given to next through Trigger, which takes the lock; an
\* unparsable body or a failed event.New ends the loop
Handle ==
    /\ sqs.loop = "handle"
    /\ LET m == sqs.batch[sqs.idx]
           entries == IF m \in {sqs.batch[j] : j \in 1..(sqs.idx - 1)} THEN sqs.entries
                      ELSE Append(sqs.entries, m)
       IN  \E fails \in BOOLEAN :
              IF fails
              THEN sqs' = [sqs EXCEPT !.entries = entries, !.loop = "deferLock"]
              ELSE /\ sqs.lock = "free"
                   /\ sqs' = [sqs EXCEPT
                                 !.entries = entries,
                                 !.events = Append(@, "open"),
                                 !.idx = @ + 1,
                                 !.nextAfterStop = @ \/ sqs.stoppedReceive,
                                 !.loop = IF sqs.idx = Len(sqs.batch)
                                          THEN "wait" ELSE "handle"]
    /\ UNCHANGED <<mgrVars, ack, flt, snd, syn, api, tc, fac, dd, ten>>

\* the ack or the nack callback of an event of the batch: batchDone.Done()
EventTerminates(i) ==
    /\ i \in DOMAIN sqs.events /\ sqs.events[i] = "open"
    /\ \E status \in {"acked", "nacked"} :
          sqs' = [sqs EXCEPT !.events[i] = status, !.wg = @ - 1]
    /\ UNCHANGED <<mgrVars, ack, flt, snd, syn, api, tc, fac, dd, ten>>

\* batchDone.Wait() that returns while events of the batch are open
WaitBatch_DoesNotWait ==
    /\ sqs.loop = "wait"
    /\ sqs' = [sqs EXCEPT !.loop = IF sqs.entries # <<>> THEN "delete" ELSE "poll"]
    /\ UNCHANGED <<mgrVars, ack, flt, snd, syn, api, tc, fac, dd, ten>>

\* batchDone.Wait()
WaitBatch ==
    /\ sqs.loop = "wait" /\ sqs.wg = 0
    /\ sqs' = [sqs EXCEPT !.loop = IF sqs.entries # <<>> THEN "delete" ELSE "poll"]
    /\ UNCHANGED <<mgrVars, ack, flt, snd, syn, api, tc, fac, dd, ten>>

\* svc.DeleteMessageBatch of all the entries; an error ends the loop
DeleteBatch ==
    /\ sqs.loop = "delete"
    /\ \E fails \in BOOLEAN :
          sqs' = IF fails THEN [sqs EXCEPT !.loop = "deferLock"]
                 ELSE [sqs EXCEPT
                          !.queue = @ \ {sqs.entries[j] : j \in DOMAIN sqs.entries},
                          !.loop = "poll"]
    /\ UNCHANGED <<mgrVars, ack, flt, snd, syn, api, tc, fac, dd, ten>>

\* the deferred function of the goroutine takes the lock
DeferLock ==
    /\ sqs.loop = "deferLock" /\ sqs.lock = "free"
    /\ sqs' = [sqs EXCEPT !.lock = "loop", !.loop = "deferSend"]
    /\ UNCHANGED <<mgrVars, ack, flt, snd, syn, api, tc, fac, dd, ten>>

\* its send on r.done meets the receive of Receive, which returns nil
DeferSend ==
    /\ sqs.loop = "deferSend" /\ sqs.recv = "waiting"
    /\ sqs' = [sqs EXCEPT !.recv = "returned", !.lock = "free", !.loop = "exited"]
    /\ UNCHANGED <<mgrVars, ack, flt, snd, syn, api, tc, fac, dd, ten>>

StopReceivingCall(c) ==
    /\ sqs.stop[c] = "idle"
    /\ sqs' = [sqs EXCEPT !.stop[c] = "lock"]
    /\ UNCHANGED <<mgrVars, ack, flt, snd, syn, api, tc, fac, dd, ten>>

\* StopReceiving takes the lock; with r.done nil it unlocks and returns
StopReceivingLock(c) ==
    /\ sqs.stop[c] = "lock" /\ sqs.lock = "free"
    /\ sqs' = IF sqs.done THEN [sqs EXCEPT !.lock = c, !.stop[c] = "send"]
              ELSE [sqs EXCEPT !.stop[c] = "returned"]
    /\ UNCHANGED <<mgrVars, ack, flt, snd, syn, api, tc, fac, dd, ten>>

\* its send on r.done meets the receive of Receive; it unlocks and returns
StopReceivingSend(c) ==
    /\ sqs.stop[c] = "send" /\ sqs.recv = "waiting"
    /\ sqs' = [sqs EXCEPT !.recv = "returned", !.lock = "free",
                          !.stop[c] = "returned", !.stoppedReceive = TRUE]
    /\ UNCHANGED <<mgrVars, ack, flt, snd, syn, api, tc, fac, dd, ten>>

\* a producer puts a message into the queue
Enqueue(m) ==
    /\ m \notin sqs.queue
    /\ sqs' = [sqs EXCEPT !.queue = @ \cup {m}]
    /\ UNCHANGED <<mgrVars, ack, flt, snd, syn, api, tc, fac, dd, ten>>

SpecSqs ==
    /\ Init
    /\ [][
        \/ ReceiveCall
        \/ Poll
        \/ Handle
        \/ \E i \in 1..MaxBatch : EventTerminates(i)
        \/ WaitBatch
        \/ DeleteBatch
        \/ DeferLock
        \/ DeferSend
        \/ \E c \in Stoppers : StopReceivingCall(c)
        \/ \E c \in Stoppers : StopReceivingLock(c)
        \/ \E c \in Stoppers : StopReceivingSend(c)
        \/ \E m \in Messages : Enqueue(m)
      ]_vars

\* the goroutines are scheduled, the callers of StopReceiving go on, and every
\* event terminates (at the latest by its timeout)
SpecSqsFair ==
    /\ SpecSqs
    /\ WF_vars(Poll \/ Handle \/ WaitBatch \/ DeleteBatch \/ DeferLock \/ DeferSend)
    /\ \A c \in Stoppers : WF_vars(StopReceivingLock(c) \/ StopReceivingSend(c))
    /\ \A i \in 1..MaxBatch : WF_vars(EventTerminates(i))

(***************************************************************************)
(* The store written by peers and the synchronizer of this process.        *)
(***************************************************************************)
\* storer.set by a peer
PeerSetRoute(id) ==
    /\ \E r \in [hash : {"h1", "h2"}, inactive : BOOLEAN] :
          /\ r # syn.store[id]
          /\ syn' = [syn EXCEPT !.store[id] = r, !.op = "set", !.failed = {},
                                !.changed = {}]
    /\ UNCHANGED <<mgrVars, ack, flt, snd, sqs, api, tc, fac, dd, ten>>

\* storer.delete by a peer
PeerDeleteRoute(id) ==
    /\ syn.store[id] # NoRoute
    /\ syn' = [syn EXCEPT !.store[id] = NoRoute, !.op = "delete", !.failed = {},
                          !.changed = {}]
    /\ UNCHANGED <<mgrVars, ack, flt, snd, sqs, api, tc, fac, dd, ten>>

\* one tick of the synchronizer (or a manual SyncAllRoutes)
SyncTick ==
    /\ \E fails \in SUBSET (ToAdd(syn.store, syn.live) \cup ToRemove(syn.store, syn.live)
                              \cup ToReplace(syn.store, syn.live)) :
          LET live == Synchronize(syn.store, syn.live, fails)
          IN  syn' = [syn EXCEPT !.live = live, !.op = "tick", !.failed = fails,
                                 !.changed = {id \in SyncIds : live[id] # syn.live[id]}]
    /\ UNCHANGED <<mgrVars, ack, flt, snd, sqs, api, tc, fac, dd, ten>>

SpecSync ==
    /\ Init
    /\ [][
        \/ \E id \in SyncIds : PeerSetRoute(id)
        \/ \E id \in SyncIds : PeerDeleteRoute(id)
        \/ SyncTick
      ]_vars

(***************************************************************************)
(* Calls of the HTTP surface.                                              *)
(***************************************************************************)
\* a handler answers an error through convertToApiError
ConvertCall ==
    /\ \E err \in SeqsUpTo(ErrorKinds, MaxErrorChain) :
          api' = [NoApiCall EXCEPT !.op = "convertToApiError", !.err = err,
                                   !.status = StatusCode(convertToApiError(err)),
                                   !.locked = api.locked]
    /\ UNCHANGED <<mgrVars, ack, flt, snd, sqs, syn, tc, fac, dd, ten>>

\* a POST of an event to the webhook or to the event endpoint of the route the
\* webhook is configured for; both answers to it are recorded; a request waits
\* for the lock of the APIManager
PostEvent ==
    /\ ~api.locked
    /\ \E webhook \in UrlVars, body \in {"unreadable", "not json", "{k:1}"}, env \in Collaborators,
          endpoint \in Endpoints :
          LET onRoute == sendEventHandler(webhook, "route", body, env)
              onWebhook == webhookHandler(webhook, body, env)
              response == IF endpoint = "route" THEN onRoute ELSE onWebhook
          IN  api' = [NoApiCall EXCEPT !.op = "PostEvent", !.webhook = webhook,
                                       !.body = body, !.endpoint = endpoint, !.env = env,
                                       !.onRoute = onRoute, !.onWebhook = onWebhook,
                                       !.locked = response.leaked]
    /\ UNCHANGED <<mgrVars, ack, flt, snd, sqs, syn, tc, fac, dd, ten>>

\* a GET of the senders, receivers or filters: on a tenant-scoped path the
\* router gives a non-empty orgId and appId, on the global path none
GetAllSendersCall ==
    /\ \E orgId \in {"", "comcast", "other", "bad!"}, appId \in {"", "gears", "bad!"},
          allSenders \in SUBSET [name : {"s1"},
                                 tid : [orgId : {"comcast", "other"}, appId : {"gears"}]],
          fails \in BOOLEAN :
          /\ orgId = "" <=> appId = ""
          /\ LET urlVars == [orgId |-> orgId, appId |-> appId, routeId |-> ""]
                 r == getAllSendersHandler(urlVars, allSenders, fails)
             IN  api' = [NoApiCall EXCEPT !.op = "getAllSenders", !.webhook = urlVars,
                                          !.status = r.status, !.items = r.items,
                                          !.locked = api.locked]
    /\ UNCHANGED <<mgrVars, ack, flt, snd, sqs, syn, tc, fac, dd, ten>>

\* a PUT or POST of a route; err holds the error of tenantStorer.GetConfig
AddRouteHandlerCall ==
    /\ \E urlVars \in UrlVars, body \in {"unreadable", "not yaml", "route"},
          route \in [id : {"", "gearsWebhook", "r2"}, orgId : {"comcast", "other"},
                     appId : {"gears"}],
          getConfig \in {<<>>, <<"TenantNotFoundError">>},
          addRoute \in {<<>>, <<"RouteValidationError">>} :
          /\ body # "route" => (route.id = "" /\ route.orgId = "comcast")
          /\ LET r == addRouteHandler(urlVars, body, route, getConfig, addRoute)
             IN  api' = [NoApiCall EXCEPT !.op = "addRoute", !.webhook = urlVars,
                                          !.body = body, !.route = route,
                                          !.err = getConfig, !.status = r.status,
                                          !.added = r.added, !.locked = api.locked]
    /\ UNCHANGED <<mgrVars, ack, flt, snd, sqs, syn, tc, fac, dd, ten>>

SpecApi ==
    /\ Init
    /\ [][
        \/ ConvertCall
        \/ PostEvent
        \/ GetAllSendersCall
        \/ AddRouteHandlerCall
      ]_vars


(***************************************************************************)
(* The tenant cache called by one caller at a time, and the clock.         *)
(***************************************************************************)
NewTenantCacheCall ==
    /\ ~tc.built
    /\ \E ttlSecs \in {10, TENANT_CACHE_TTL_SECS} :
          tc' = [NewTenantCache(ttlSecs) EXCEPT !.now = tc.now]
    /\ UNCHANGED <<mgrVars, ack, flt, snd, sqs, syn, api, fac, dd, ten>>

SetTenantCall ==
    /\ \E key \in TenantKeys, config \in TenantConfigs :
          tc' = [SetTenant(tc, key, config) EXCEPT
                    !.op = "SetTenant", !.result = "nil", !.age = 0 - 1,
                    !.evicted = FALSE]
    /\ UNCHANGED <<mgrVars, ack, flt, snd, sqs, syn, api, fac, dd, ten>>

\* age: the age of the item the call found, -1 when it found none
GetTenantCall ==
    /\ \E key \in TenantKeys \cup {""} :
          LET r == GetTenant(tc, key)
              found == key # "" /\ tc.built /\ tc.cache[key] # NoItem
          IN  tc' = [tc EXCEPT
                        !.cache = r.cache, !.op = "GetTenant", !.result = r.result,
                        !.age = IF found THEN tc.now - tc.cache[key].ts ELSE 0 - 1,
                        !.evicted = found /\ r.cache[key] = NoItem]
    /\ UNCHANGED <<mgrVars, ack, flt, snd, sqs, syn, api, fac, dd, ten>>

\* time.Now().Unix() moves on
TimePasses ==
    /\ \E d \in 1..(MaxClock - tc.now) : tc' = [tc EXCEPT !.now = @ + d]
    /\ UNCHANGED <<mgrVars, ack, flt, snd, sqs, syn, api, fac, dd, ten>>

SpecCache ==
    /\ Init
    /\ [][
        \/ NewTenantCacheCall
        \/ SetTenantCall
        \/ GetTenantCall
        \/ TimePasses
      ]_vars

(***************************************************************************)
(* The tenant cache called by several goroutines: the steps of SetTenant   *)
(* and GetTenant between their lock operations.                            *)
(***************************************************************************)
\* the goroutine writes the map: the insert of SetTenant under the write lock,
\* the delete of GetTenant after the read lock was released
InCacheWrite(g) == tc.at[g].pc \in {"SetTenant locked", "GetTenant deleting"}

\* the goroutine reads the map, under the read lock
InCacheRead(g) == tc.at[g].pc = "GetTenant rlocked"

HoldsLock(g) == tc.at[g].pc = "SetTenant locked"

\* c.Lock() of SetTenant
SetTenantLock(g) ==
    /\ tc.built /\ ~tc.crashed /\ tc.at[g].pc = "idle"
    /\ \A h \in CacheCallers : ~HoldsLock(h) /\ ~(tc.at[h].pc = "GetTenant rlocked")
    /\ \E config \in TenantConfigs :
          tc' = [tc EXCEPT !.at[g] = [pc |-> "SetTenant locked", config |-> config]]
    /\ UNCHANGED <<mgrVars, ack, flt, snd, sqs, syn, api, fac, dd, ten>>

\* the insert and c.Unlock(); the time of the item is taken as that of the insert
SetTenantUnlock(g) ==
    /\ ~tc.crashed /\ tc.at[g].pc = "SetTenant locked"
    /\ \E key \in TenantKeys :
          tc' = [SetTenant(tc, key, tc.at[g].config) EXCEPT !.at[g] = CacheIdle]
    /\ UNCHANGED <<mgrVars, ack, flt, snd, sqs, syn, api, fac, dd, ten>>

\* c.RLock() of GetTenant
GetTenantRLock(g) ==
    /\ tc.built /\ ~tc.crashed /\ tc.at[g].pc = "idle"
    /\ \A h \in CacheCallers : ~HoldsLock(h)
    /\ tc' = [tc EXCEPT !.at[g] = [pc |-> "GetTenant rlocked", config |-> "none"]]
    /\ UNCHANGED <<mgrVars, ack, flt, snd, sqs, syn, api, fac, dd, ten>>

\* the lookup, c.RUnlock() and the test of the age: an expired item is to be
\* deleted, any other outcome returns
GetTenantRUnlock(g) ==
    /\ ~tc.crashed /\ tc.at[g].pc = "GetTenant rlocked"
    /\ \E key \in TenantKeys :
          tc' = IF tc.cache[key] # NoItem /\ Expired(tc, key)
                THEN [tc EXCEPT !.at[g] = [pc |-> "GetTenant deleting",
                                           config |-> "none"]]
                ELSE [tc EXCEPT !.at[g] = CacheIdle]
    /\ UNCHANGED <<mgrVars, ack, flt, snd, sqs, syn, api, fac, dd, ten>>

\* delete(c.cache, tenantId), with no lock held, and the return of nil
GetTenantDelete(g) ==
    /\ ~tc.crashed /\ tc.at[g].pc = "GetTenant deleting"
    /\ \E key \in TenantKeys :
          tc' = [tc EXCEPT !.cache[key] = NoItem, !.at[g] = CacheIdle]
    /\ UNCHANGED <<mgrVars, ack, flt, snd, sqs, syn, api, fac, dd, ten>>

\* the runtime finds a map write that overlaps another access of the map and
\* ends the process
FatalCacheAccess ==
    /\ ~tc.crashed
    /\ \E g, h \in CacheCallers :
          g # h /\ InCacheWrite(g) /\ (InCacheWrite(h) \/ InCacheRead(h))
    /\ tc' = [tc EXCEPT !.crashed = TRUE]
    /\ UNCHANGED <<mgrVars, ack, flt, snd, sqs, syn, api, fac, dd, ten>>

SpecCacheConc ==
    /\ Init
    /\ [][
        \/ NewTenantCacheCall
        \/ TimePasses
        \/ \E g \in CacheCallers : SetTenantLock(g)
        \/ \E g \in CacheCallers : SetTenantUnlock(g)
        \/ \E g \in CacheCallers : GetTenantRLock(g)
        \/ \E g \in CacheCallers : GetTenantRUnlock(g)
        \/ \E g \in CacheCallers : GetTenantDelete(g)
        \/ FatalCacheAccess
      ]_vars

(***************************************************************************)
(* One dedup filter invoked on a sequence of events.                       *)
(***************************************************************************)
DedupFilterCall ==
    /\ \E payload \in [key : {"f1", "f2", "f3"}, other : {"a", "b", "c"}] :
          LET r == Dedup(dd.window, payload)
          IN  dd' = [window |-> r.window, seen |-> dd.seen \cup {payload.key},
                     op |-> "Filter", payload |-> payload,
                     wasSeen |-> payload.key \in dd.seen,
                     inWindow |-> \E i \in DOMAIN dd.window : dd.window[i] = payload.key,
                     events |-> r.events, acks |-> r.acks, nacks |-> r.nacks]
    /\ UNCHANGED <<mgrVars, ack, flt, snd, sqs, syn, api, tc, fac, ten>>

SpecDedup ==
    /\ Init
    /\ [][
        \/ DedupFilterCall
      ]_vars


(***************************************************************************)
(* Tenant configs set through the API and events submitted for the tenant. *)
(***************************************************************************)
\* setTenantConfigHandler: the config is given to the tenant storer; the
\* tenant cache is left as it is
SetTenantConfigCall ==
    /\ \E config \in TenantConfigs, fails \in BOOLEAN :
          ten' = [ten EXCEPT !.stored = IF fails THEN @ ELSE config,
                             !.op = "setTenantConfig", !.used = "none",
                             !.verified = FALSE]
    /\ UNCHANGED <<mgrVars, ack, flt, snd, sqs, syn, api, tc, fac, dd>>

\* sendEventHandler up to the authentication: the tenant config is that of the
\* cache, or else that of the storer, which is then cached; the token is
\* verified unless the config has OpenEventApi set.  When the storer has no
\* config the handler returns with the lock of the APIManager held.
SendEventCall ==
    /\ tc.built /\ ~ten.locked
    /\ \E key \in TenantKeys :
          LET got == GetTenant(tc, key)
              missed == [tc EXCEPT !.cache = got.cache]
          IN  IF got.result # "nil"
              THEN /\ tc' = missed
                   /\ ten' = [ten EXCEPT !.op = "sendEvent", !.used = got.result,
                                         !.verified = ~OpenEventApi(got.result)]
              ELSE IF ten.stored = "none"
              THEN /\ tc' = missed
                   /\ ten' = [ten EXCEPT !.op = "sendEvent", !.used = "none",
                                         !.verified = FALSE, !.locked = TRUE]
              ELSE /\ tc' = SetTenant(missed, key, ten.stored)
                   /\ ten' = [ten EXCEPT !.op = "sendEvent", !.used = ten.stored,
                                         !.verified = ~OpenEventApi(ten.stored)]
    /\ UNCHANGED <<mgrVars, ack, flt, snd, sqs, syn, api, fac, dd>>

SpecTenant ==
    /\ Init
    /\ [][
        \/ NewTenantCacheCall
        \/ TimePasses
        \/ SetTenantConfigCall
        \/ SendEventCall
      ]_vars


(***************************************************************************)
(* Routes added and the tenant config deleted by handlers that run in      *)
(* several goroutines.  The handlers take no lock: between the check a     *)
(* handler makes and the write that follows it, other handlers run.        *)
(***************************************************************************)
\* addRouteHandler: tenantStorer.GetConfig, answered 404 when the tenant has no
\* config; then routingTableMgr.AddRoute
AddRouteHandlerStep(g) ==
    /\ \/ /\ ten.at[g] = "idle"
          /\ ten' = IF ten.stored = "none"
                    THEN [ten EXCEPT !.op = "addRoute", !.status = 404]
                    ELSE [ten EXCEPT !.at[g] = "addRoute has config"]
       \/ /\ ten.at[g] = "addRoute has config"
          /\ \E routeId \in {"r1", "r2"} :
                ten' = [ten EXCEPT !.at[g] = "idle", !.routes = @ \cup {routeId},
                                   !.op = "addRoute", !.status = 200]
    /\ UNCHANGED <<mgrVars, ack, flt, snd, sqs, syn, api, tc, fac, dd>>

\* deleteTenantConfigHandler: GetAllTenantRoutes, answered with the status of
\* convertToApiError(BadRequestError) when the tenant has routes; then
\* tenantStorer.DeleteConfig, answered 404 when there is no config
DeleteTenantConfigHandlerStep(g) ==
    /\ \/ /\ ten.at[g] = "idle"
          /\ ten' = IF ten.routes # {}
                    THEN [ten EXCEPT !.op = "deleteTenantConfig rejected",
                                     !.status = StatusCode(convertToApiError(<<"other">>))]
                    ELSE [ten EXCEPT !.at[g] = "deleteTenantConfig has no routes"]
       \/ /\ ten.at[g] = "deleteTenantConfig has no routes"
          /\ ten' = [ten EXCEPT !.at[g] = "idle", !.stored = "none",
                                !.op = "deleteTenantConfig",
                                !.status = IF ten.stored = "none" THEN 404 ELSE 200]
    /\ UNCHANGED <<mgrVars, ack, flt, snd, sqs, syn, api, tc, fac, dd>>

SpecTenantRoutes ==
    /\ Init
    /\ [][
        \/ SetTenantConfigCall
        \/ \E g \in CacheCallers : AddRouteHandlerStep(g)
        \/ \E g \in CacheCallers : DeleteTenantConfigHandlerStep(g)
      ]_vars


(***************************************************************************)
(* Properties of the routing table managers.                               *)
(***************************************************************************)

\* C1: AddRoute(r) made right after a successful AddRoute(r) succeeds again
\* (unless the storer itself fails) and changes nothing: the live index, the
\* store and the plugin registry are the same after the second call as after
\* the first.
C1_AddRouteTwiceIsNoOp ==
    [][(/\ lastOp.op \in {"AddRoute", "DefaultAddRoute"}
        /\ lastOp.err = "ok"
        /\ lastOp'.op = lastOp.op
        /\ lastOp'.entry = lastOp.entry)
       => /\ lastOp'.setFails \/ lastOp'.err = "ok"
          /\ routingTableIndex' = routingTableIndex
          /\ storage' = storage
          /\ registry' = registry]_vars

\* a second AddRoute of the same entry has returned success
C1_Witness ==
    /\ lastOp.op = "AddRoute" /\ lastOp.again /\ lastOp.err = "ok"
    /\ routingTableIndex[Hash(lastOp.entry)] = lastOp.entry

\* the route's receiver and sender are held in the plugin registry
Registered(route) ==
    /\ <<"receiver", route.src>> \in PluginKeys
    /\ registry.refcount[<<"receiver", route.src>>] > 0
    /\ <<"sender", route.dst>> \in PluginKeys
    /\ registry.refcount[<<"sender", route.dst>>] > 0

\* C2: after AddRoute(r) has returned success for a valid route with known
\* plugins, r is in the store and its receiver and sender are registered.
C2_AddRoutePersistsThenRegisters ==
    (/\ lastOp.op = "DefaultAddRoute" /\ lastOp.err = "ok"
     /\ Validate(lastOp.entry) = "ok"
     /\ lastOp.entry.src \in KnownPlugins /\ lastOp.entry.dst \in KnownPlugins)
    => /\ RouteKey(lastOp.entry) \in DOMAIN storage
       /\ storage[RouteKey(lastOp.entry)] = lastOp.entry
       /\ Registered(lastOp.entry)

\* C3: when SetRoute fails AddRoute returns the error and registers nothing;
\* when the route cannot be registered (its receiver plugin is unknown to the
\* factory) AddRoute returns an error and the store does not hold the route.
C3_SetRouteFirstCompensateOnRegisterFailure ==
    lastOp.op = "DefaultAddRoute"
    => /\ lastOp.setFails => (lastOp.err # "ok" /\ ~Registered(lastOp.entry))
       /\ (/\ ~lastOp.setFails
           /\ NewPlugin([plugin |-> lastOp.entry.src, name |-> lastOp.entry.name]) # "ok")
          => (lastOp.err # "ok" /\ RouteKey(lastOp.entry) \notin DOMAIN storage)

\* C4: the live index holds at most one route per (tenantId, routeId).
C4_OneLiveRoutePerIdentity ==
    \A h1, h2 \in DOMAIN routingTableIndex :
        RouteKey(routingTableIndex[h1]) = RouteKey(routingTableIndex[h2]) => h1 = h2

\* C5: RemoveRoute of a valid route that is not in the index returns success
\* and leaves the index and the store as they were; so does a RemoveRoute that
\* repeats a successful RemoveRoute of the same route.
C5_RemoveAbsentRouteIsNoOp ==
    [][(/\ lastOp'.op = "RemoveRoute"
        /\ lastOp'.entry \in ValidEntries
        /\ \/ Hash(lastOp'.entry) \notin DOMAIN routingTableIndex
           \/ (lastOp.op = "RemoveRoute" /\ lastOp.err = "ok"
                    /\ lastOp.entry = lastOp'.entry))
       => /\ lastOp'.err = "ok"
          /\ routingTableIndex' = routingTableIndex
          /\ storage' = storage]_vars

\* a RemoveRoute has been repeated for a route that is no longer there, while
\* other routes are live
C5_Witness ==
    /\ lastOp.op = "RemoveRoute" /\ lastOp.again /\ ~lastOp.found
    /\ lastOp.err = "ok"
    /\ routingTableIndex # EmptyMap

\* C6: after ReplaceAllRoutes(routes) has returned success the live index
\* holds exactly the given routes, each under its hash.
C6_ReplaceInstallsGivenRoutes ==
    (lastOp.op = "ReplaceAllRoutes" /\ lastOp.err = "ok")
    => /\ DOMAIN routingTableIndex =
            {Hash(lastOp.entries[i]) : i \in 1..Len(lastOp.entries)}
       /\ \A h \in DOMAIN routingTableIndex : Hash(routingTableIndex[h]) = h

\* C7: AddRoute of a nil entry or of an entry that fails validation returns an
\* error and leaves the index, and so the route count, as it was.
C7_AddInvalidChangesNothing ==
    [][(/\ lastOp'.op = "AddRoute"
        /\ lastOp'.entry \notin ValidEntries)
       => /\ lastOp'.err # "ok"
          /\ routingTableIndex' = routingTableIndex
          /\ GetRouteCount(routingTableIndex') = GetRouteCount(routingTableIndex)]_vars

\* AddRoute has rejected an entry without a sender while routes are live
C7_Witness ==
    /\ lastOp.op = "AddRoute" /\ lastOp.entry # Nil
    /\ lastOp.entry.src # "" /\ lastOp.entry.dst = ""
    /\ lastOp.err = "missing sender"
    /\ GetRouteCount(routingTableIndex) > 0

\* C8: a ReplaceAllRoutes that returns a validation error leaves the live
\* index as it was before the call.
C8_FailedReplaceChangesNothing ==
    [][(lastOp'.op = "ReplaceAllRoutes" /\ lastOp'.err # "ok")
       => routingTableIndex' = routingTableIndex]_vars

\* C9: management operations never overlap on the live index, no read
\* overlaps a management operation's map write, and so the runtime never
\* sees a concurrent map access.
C9_ManagementOpsAreSerialized ==
    /\ \A g, h \in Goroutines : (InManagementOp(g) /\ InManagementOp(h)) => g = h
    /\ ~RacingOnMap
    /\ ~crashed

C12_RootFiresOnce ==
    /\ ack.fired <= 1
    /\ (\A n \in AckNodes : ack.used[n] => ack.selfDone[n]) => ack.fired = 1
    /\ ack.result = "ack" =>
            \A n \in AckNodes : ack.used[n] => ack.status[n] = "acked"
    /\ (\E n \in AckNodes : ack.used[n] /\ ack.status[n] = "nacked") =>
            (ack.fired = 1 /\ ack.result = "nack" /\ ack.err = ack.firstErr)
    /\ ack.result = "nack" => ack.err = ack.firstErr
    /\ \A n \in AckNodes : (ack.used[n] /\ ack.status[n] = "acked") =>
            \A c \in Children(ack, n) : ack.status[c] = "acked"

\* a tree of three levels whose every node was acked, the root last
C12_Witness ==
    /\ ack.result = "ack" /\ ack.fired = 1
    /\ \E c \in Children(ack, Root) : Children(ack, c) # {}

\* the events the last filter invocation returned are clones of its input,
\* one per array element and in array order, each with that element as payload
SplitEventsAreTheElements ==
    /\ Len(flt.events) = Len(flt.obj.items)
    /\ \A i \in DOMAIN flt.events :
          /\ flt.events[i].payload = flt.obj.items[i]
          /\ flt.events[i].node # flt.input
          /\ ack.parent[flt.events[i].node] = flt.input
          /\ \A j \in DOMAIN flt.events : j # i =>
                flt.events[j].node # flt.events[i].node

\* C13 (as stated): split.Filter on an array of length k returns exactly k
\* events, in array order, the i-th a clone whose payload is the i-th element.
C13_SplitReturnsOnePerElement ==
    (flt.filter = "split" /\ flt.obj.type = "array") => SplitEventsAreTheElements

\* C13 (amended): split.Filter on an array of length k returns exactly k events,
\* in array order, the i-th a clone whose payload is the i-th element, unless
\* the filter is nil or a Clone or SetPayload fails; then it nacks its input
\* once and returns no event.
C13_SplitReturnsOnePerElementUnlessFailure ==
    (flt.filter = "split" /\ flt.obj.type = "array") =>
        IF flt.nilFilter \/ flt.cloneFailAt > 0 \/ flt.setFailAt > 0
        THEN flt.events = <<>> /\ flt.nacks = 1 /\ flt.acks = 0
        ELSE SplitEventsAreTheElements

\* the second Clone of a split of two elements failed: one clone was made, no
\* event is returned
C13_Witness ==
    /\ flt.filter = "split" /\ flt.obj.type = "array" /\ Len(flt.obj.items) = 2
    /\ flt.cloneFailAt = 2 /\ flt.clones = 1 /\ flt.events = <<>>

\* C14: a split that fans out into k children acked its input exactly once and
\* after the k clones were made: the input is acked, and the root callback has
\* fired as Ack, only when each of the k children is terminated; the callback
\* fires at most once.
C14_SplitAcksAfterClones ==
    (flt.filter = "split" /\ Len(flt.events) >= 1) =>
        /\ flt.acks = 1 /\ flt.nacks = 0
        /\ flt.clones = Len(flt.events)
        /\ ack.selfDone[flt.input]
        /\ ack.fired <= 1
        /\ ack.status[flt.input] = "acked" =>
              \A i \in DOMAIN flt.events : ack.selfDone[flt.events[i].node]
        /\ ack.result = "ack" =>
              \A i \in DOMAIN flt.events : ack.selfDone[flt.events[i].node]

\* the root was split into two children, both were acked and the root callback
\* fired as Ack
C14_Witness ==
    /\ flt.filter = "split" /\ flt.input = Root /\ Len(flt.events) = 2
    /\ ack.result = "ack" /\ ack.fired = 1

\* C15: when the value at the path is nil or not an array, split nacks its
\* input exactly once, makes no clone and returns no event.
C15_SplitNacksNonArray ==
    (flt.filter = "split" /\ flt.obj.type # "array") =>
        /\ flt.nacks = 1 /\ flt.acks = 0
        /\ flt.clones = 0 /\ flt.events = <<>>
        /\ ack.selfDone[flt.input] /\ Children(ack, flt.input) = {}
        /\ ack.result = "nack"

C15_Witness ==
    /\ flt.filter = "split" /\ ~flt.nilFilter /\ flt.obj.type = "string"
    /\ flt.nacks = 1 /\ flt.input # Root

\* C16: a filter invocation that returns no event called exactly one of Ack
\* and Nack on its input, once.
C16_ZeroEventsTerminatesInput ==
    (flt.filter # "none" /\ Len(flt.events) = 0) =>
        /\ flt.acks + flt.nacks = 1
        /\ ack.selfDone[flt.input]

\* split of an empty array: no event, the input acked
C16_Witness ==
    /\ flt.filter = "split" /\ flt.obj.type = "array" /\ flt.obj.items = <<>>
    /\ ~flt.nilFilter /\ flt.acks = 1 /\ flt.events = <<>>

\* C17: every event a filter returns was made by Clone from its input; no
\* filter returns its input event itself.
C17_EmittedEventsAreClones ==
    flt.filter # "none" =>
        \A i \in DOMAIN flt.events :
            /\ flt.events[i].node # flt.input
            /\ ack.parent[flt.events[i].node] = flt.input

\* C18: for every payload and whether or not the session was opened,
\* Sender.Send terminates its event exactly once and does not panic.
C18_SendTerminatesOnce ==
    snd.op = "Send" => (~snd.panicked /\ snd.acks + snd.nacks = 1)

\* C19 (first part): Receive does not return before StopReceiving was called.
C19_ReceiveReturnsOnlyOnStop ==
    sqs.recv = "returned" => \E c \in Stoppers : sqs.stop[c] # "idle"

\* C20: after a StopReceiving has returned, the receive goroutine eventually
\* has left its poll loop: it polls no more and invokes next no more.
C20_LoopEndsAfterStop ==
    sqs.stoppedReceive ~> (sqs.loop \in {"deferLock", "deferSend", "exited"})

\* C21: a StopReceiving that was called returns, whatever the state of the
\* receiver: it is never left blocked, with or without the receiver's lock.
C21_StopReceivingReturns ==
    \A c \in Stoppers : (sqs.stop[c] = "lock") ~> (sqs.stop[c] = "returned")

\* C22: a receiver error does not end the poll loop: the goroutine leaves its
\* loop only after StopReceiving was called.
C22_LoopSurvivesErrors ==
    sqs.loop \in {"deferLock", "deferSend", "exited"} =>
        \E c \in Stoppers : sqs.stop[c] # "idle"

\* C23: a message leaves the queue only if the events made from it in the
\* batch were acked; the message of a nacked (or timed out) event stays.
C23_DeletedOnlyIfAcked ==
    [][\A m \in sqs.queue \ sqs'.queue :
          \A i \in DOMAIN sqs.batch :
              sqs.batch[i] = m => (i \in DOMAIN sqs.events /\ sqs.events[i] = "acked")]_vars

C25_StatusByKind ==
    api.op = "convertToApiError" =>
        /\ KnownKinds(api.err) = {} => api.status = 500
        /\ \A kind \in ErrorKinds :
              KnownKinds(api.err) = {kind} => api.status = StatusOfKind(kind)

\* C26: with a global webhook configured, a POST to the webhook is answered
\* as the same POST to the event endpoint of the configured route is.
C26_WebhookIsRouteEvent ==
    (/\ api.op = "PostEvent"
     /\ api.webhook.orgId # "" /\ api.webhook.appId # "" /\ api.webhook.routeId # "")
        => api.onWebhook = api.onRoute

\* C27: GetTenant returns the cached item of a key if and only if its age is
\* at most the ttlSecs the cache was built with; an older item is evicted by
\* the read and nil is returned.
C27_TtlIsConfiguredTtl ==
    (tc.op = "GetTenant" /\ tc.age >= 0) =>
        /\ tc.result # "nil" <=> tc.age <= tc.ttlSecs
        /\ tc.age > tc.ttlSecs => tc.evicted

\* C28: no write of the map of the tenant cache overlaps another access of
\* the map by another goroutine.
C28_CacheWritesAreExclusive ==
    \A g, h \in CacheCallers :
        (g # h /\ InCacheWrite(g)) => ~(InCacheWrite(h) \/ InCacheRead(h))

\* C29: a factory whose config does not parse or is invalid, or whose plugin
\* cannot be initialized, returns an error and no instance; an instance that
\* is returned is usable (a discord sender has an open session).
C29_FactoryErrorsAreReturned ==
    fac.op # "none" =>
        /\ (fac.config # "valid" \/ (fac.op = "NewSender" /\ fac.outcome # "opened"))
              => (fac.err # "nil" /\ fac.instance = "none")
        /\ fac.err = "nil" => fac.instance \in {"open", "filter"}

\* C30: a modify filter returns exactly one event, its input, which it neither
\* acked nor nacked; at each configured path (Path and Paths) that holds a
\* string the value is the upper-case form when ToUpper is set, otherwise the
\* lower-case form when ToLower is set; a missing value, a value that is not a
\* string and every path that is not configured are as they were.
C30_ModifyChangesCaseAtPaths ==
    (flt.filter = "modify" /\ ~flt.nilFilter) =>
        /\ Len(flt.events) = 1
        /\ flt.events[1].node = flt.input
        /\ flt.acks = 0 /\ flt.nacks = 0 /\ flt.clones = 0
        /\ \A p \in {"p", "q"} :
              LET old == flt.payload[p]
                  new == flt.events[1].payload[p]
                  configured ==
                      \/ p = flt.config.path
                      \/ \E i \in DOMAIN flt.config.paths : flt.config.paths[i] = p
              IN  IF configured /\ old.type = "string"
                  THEN new = IF flt.config.toUpper THEN JStr(ToUpper(old.str))
                             ELSE IF flt.config.toLower THEN JStr(ToLower(old.str))
                             ELSE old
                  ELSE new = old

\* a modify filter with Path p, Paths q, ToUpper and ToLower set, on a payload
\* with strings at both paths: both are upper-cased
C30_Witness ==
    /\ flt.filter = "modify" /\ ~flt.nilFilter
    /\ flt.config.path = "p" /\ flt.config.paths = <<"q">>
    /\ flt.config.toUpper /\ flt.config.toLower
    /\ flt.payload = [p |-> JStr("Ab"), q |-> JStr("q1")]
    /\ flt.events = <<[node |-> flt.input,
                       payload |-> [p |-> JStr("AB"), q |-> JStr("Q1")]]>>

C32_LockReleasedOnReturn ==
    api.op = "PostEvent" => ~api.locked

\* C33: an event submitted for a tenant whose stored config has OpenEventApi
\* not set is authenticated: the config sendEventHandler decides by is the
\* stored one.
C33_AuthFollowsStoredConfig ==
    (ten.op = "sendEvent" /\ ten.used # "none") =>
        /\ ten.used = ten.stored
        /\ ~OpenEventApi(ten.stored) => ten.verified

\* C34: the answer to a status request on a tenant-scoped path holds only
\* plugins of the tenant of the path, whatever orgId and appId the path names.
C34_StatusOfPathTenantOnly ==
    (api.op = "getAllSenders" /\ api.webhook.orgId # "") =>
        \A v \in api.items :
            v.tid = [orgId |-> api.webhook.orgId, appId |-> api.webhook.appId]

\* C35: whatever the interleaving of addRouteHandler and
\* deleteTenantConfigHandler, every route belongs to a tenant whose config
\* exists; a delete of the config of a tenant that has routes is rejected
\* with 400.
C35_RoutesHaveTenantConfig ==
    /\ ten.routes # {} => ten.stored # "none"
    /\ ten.op = "deleteTenantConfig rejected" => ten.status = 400

\* C36: sendEventHandler calls RouteEvent, with the payload of the body, only
\* when the tenant config was obtained, the token was verified unless the
\* config has OpenEventApi set, the body was read and parsed, the routeId is
\* not empty and GetRoute succeeded; the first of these that fails, in this
\* order, is answered with its error and RouteEvent is not called.
C36_RouteEventAfterAllChecks ==
    api.op = "PostEvent" =>
        LET r == api.onRoute
            env == api.env
            noTenant == getTenant(api.webhook) = Nil
            noConfig == ~env.cacheHit /\ env.getConfig # <<>>
            noAuth == ~env.openEventApi /\ env.verifyToken["route"] # <<>>
            noBody == api.body # "{k:1}"
            noRouteId == api.webhook.routeId = ""
            noRoute == env.getRoute # <<>>
        IN  /\ r.routed # "" <=>
                  ~(noTenant \/ noConfig \/ noAuth \/ noBody \/ noRouteId \/ noRoute)
            /\ r.routed # "" => r.routed = api.body
            /\ r.routed = "" => r.status # 200
            /\ r.status = 200 <=> (r.routed # "" /\ env.routeEvent = <<>>)
            /\ (~noTenant /\ noConfig) =>
                  r.status = StatusCode(convertToApiError(env.getConfig))
            /\ (~noTenant /\ ~noConfig /\ noAuth) =>
                  r.status = StatusCode(convertToApiError(env.verifyToken["route"]))
            /\ (~noTenant /\ ~noConfig /\ ~noAuth /\ ~noBody /\ ~noRouteId /\ noRoute) =>
                  r.status = StatusCode(convertToApiError(env.getRoute))

\* an event of a tenant without OpenEventApi was routed after its token was
\* verified and its route found
C36_Witness ==
    /\ api.op = "PostEvent" /\ api.endpoint = "route"
    /\ ~api.env.openEventApi /\ ~api.env.cacheHit
    /\ api.onRoute.status = 200 /\ api.onRoute.routed = "{k:1}"
    /\ api.onRoute.routeId = "gearsWebhook"

\* C37: the route addRouteHandler gives to AddRoute has the orgId and appId of
\* the request path, whatever tenant the body names, and the routeId of the
\* path when the path has one; a request whose path routeId and body id are
\* both set and differ never reaches AddRoute, and is answered 400 when it got
\* as far as the comparison.
C37_AddedRouteIsOfPathTenant ==
    api.op = "addRoute" =>
        LET mismatch == /\ api.body = "route" /\ api.webhook.routeId # ""
                        /\ api.route.id # "" /\ api.route.id # api.webhook.routeId
        IN  /\ api.added # Nil =>
                  /\ api.added.orgId = api.webhook.orgId
                  /\ api.added.appId = api.webhook.appId
                  /\ api.webhook.routeId # "" => api.added.id = api.webhook.routeId
                  /\ api.webhook.routeId = "" => api.added.id = api.route.id
            /\ mismatch => (api.added = Nil /\ api.status # 200)
            /\ (mismatch /\ getTenant(api.webhook) # Nil /\ api.err = <<>>)
                  => api.status = 400

\* a PUT of a body that names another tenant and no id: the route added is of
\* the tenant and the routeId of the path
C37_Witness ==
    /\ api.op = "addRoute" /\ api.status = 200
    /\ api.route = [id |-> "", orgId |-> "other", appId |-> "gears"]
    /\ api.added = [id |-> "gearsWebhook", orgId |-> "comcast", appId |-> "gears"]

\* C38: the result of a query is an exact snapshot of the live set: GetAllRoutes
\* returns every live route once and nothing else, the queries by plugin return
\* the live routes whose source (destination) plugin has the hash asked for,
\* and no result holds a nil entry.
C38_QueriesAreExactSnapshots ==
    LET live == {routingTableIndex[h] : h \in DOMAIN routingTableIndex}
        res == {lastOp.result[i] : i \in DOMAIN lastOp.result}
        want == CASE lastOp.op = "GetAllRoutes" -> live
                  [] lastOp.op \in {"GetRoutesBySourcePlugin", "GetRoutesForEvent"} ->
                        {e \in live : e.src = lastOp.plugin}
                  [] lastOp.op = "GetRoutesByDestinationPlugin" ->
                        {e \in live : e.dst = lastOp.plugin}
                  [] OTHER -> {}
    IN  lastOp.op \in {"GetAllRoutes", "GetRoutesBySourcePlugin",
                       "GetRoutesByDestinationPlugin", "GetRoutesForEvent"}
        => /\ res = want
           /\ Len(lastOp.result) = Cardinality(want)
           /\ Nil \notin res

\* C39: for each batch the SQS receiver polls, DeleteMessageBatch is issued
\* only when every event triggered from the batch has terminated, each by one
\* ack or nack, so that the wait counter of the batch is zero; no message id
\* is twice in the delete request, which names the messages of the batch; and
\* the next poll starts only after the delete of the previous batch (a batch
\* without messages has nothing to delete).
C39_DeleteAfterBatchTerminated ==
    /\ [](/\ sqs.wg = Len(sqs.batch)
                      - Cardinality({i \in DOMAIN sqs.events : sqs.events[i] # "open"})
          /\ sqs.loop = "delete"
             => /\ Len(sqs.events) = Len(sqs.batch)
                /\ \A i \in DOMAIN sqs.events : sqs.events[i] \in {"acked", "nacked"}
                /\ sqs.wg = 0
                /\ \A i, j \in DOMAIN sqs.entries :
                      sqs.entries[i] = sqs.entries[j] => i = j
                /\ {sqs.entries[i] : i \in DOMAIN sqs.entries}
                      = {sqs.batch[i] : i \in DOMAIN sqs.batch})
    /\ [][(sqs'.loop = "poll" /\ sqs.loop \notin {"none", "poll"})
          => \/ sqs.batch = <<>> /\ sqs.loop = "wait"
             \/ /\ sqs.loop = "delete"
                /\ \A i \in DOMAIN sqs.batch : sqs.batch[i] \notin sqs'.queue]_vars

\* two messages with one id were polled, their events were acked and nacked,
\* and the delete request with the one entry is about to be issued
C39_Witness ==
    /\ sqs.loop = "delete"
    /\ Len(sqs.batch) = 2 /\ Len(sqs.entries) = 1
    /\ sqs.events = <<"acked", "nacked">>

====
